---- MODULE Spec2Model ----
(***************************************************************************)
(* Comparable-sales valuation engine of listings_build.py: the spatial     *)
(* comp index (Step 1), the zone-matched exit $/SF estimator (Step 4) and  *)
(* the vintage-tiered new-construction estimator (Step 4b), the rent       *)
(* stamping (Steps 4c, 4d); and the subdivision comp builder               *)
(* build_subdiv_comps.py.                                                  *)
(*                                                                         *)
(* Coordinates are integers in millidegrees (0.001 degree), so that        *)
(* GRID_SIZE = 0.01 degree is 10 and the radii 0.007/0.015/0.022/0.029 are *)
(* 7/15/22/29.  Python None is NoneInt for numbers and "None" for strings. *)
(* A Python list whose order no reader depends on (every reader filters it *)
(* and then sorts it in p75) is a bag.                                     *)
(***************************************************************************)
EXTENDS Integers, Sequences, FiniteSets, Bags, TLC

VARIABLES
    comps,             \* the sold comps read from data.js (bag of comp records)
    all_grid,          \* (row, col) -> entries
    zone_grid,         \* zone -> (row, col) -> entries
    newcon_zone_grid,  \* zone -> (row, col) -> entries with yb
    zip_zone_ppsfs,    \* (zip, zone) -> ppsf values
    zip_all_ppsfs,     \* zip -> ppsf values
    newcon_count,      \* number of comps in the new-construction index
    listing,           \* the listing being stamped
    p75_calls,         \* the calls of the p75 helper made for that listing
    newcon_pool,       \* the entries behind the new-construction estimate
    pc,                \* "step1" while the index is built, "done" once the
                       \* listing is stamped, "crashed" if stamping raised
    \* build_subdiv_comps.py
    rows,              \* the rows of redfin_sold.csv
    zhvi,              \* zhvi.json: zip -> appr_12mo in tenths of a percent
    now,               \* datetime.now() of the run, as a day number
    candidates,        \* the list candidates
    cluster_id,        \* the counter cluster_id
    scan_i,            \* index i of the cluster detection loop (1-based)
    clustered,         \* the list clustered
    output,            \* the content of subdiv_comps.json
    prev_output,       \* the content the previous run wrote
    runs,              \* number of runs of the script started
    subdiv_pc,         \* "idle", "step2", "step3", "step4", "written"
    \* listings_build.py, Steps 4c and 4d
    rental_comps,      \* the rows of rental_comps.csv (bag)
    rental_grid,       \* (row, col) -> rental comp entries
    rental_comp_count, \* number of rental comps indexed
    zori_by_zip,       \* zip -> most recent ZORI rent
    rent_result,       \* what find_rental_estimate returned for the listing
    rent_pc,           \* "4c", "4d-a", "4d-d", "done"
    \* add_btr_layer.py
    neighborhoods,     \* neighborhood_rents.json: city -> manual rents
    btr_zori_by_zip,   \* its own zori_by_zip: zip -> most recent ZORI rent
    safmr_by_zip,      \* zip -> fmr3br of rents.json
    btr_listing,       \* the listing of the current iteration of the loop
    hood_ppsf,         \* the local hood_ppsf of that iteration
    land_cost,         \* the local land_cost, NoneInt while not computed
    btr_pc,            \* "step1", "step3", "done"
    \* listings_build.py, Step 4b2
    subdiv_comps_raw,  \* the records of subdiv_comps.json read so far (bag)
    subdiv_grid,       \* (row, col) -> subdivision comps
    subdiv_zone_grid,  \* zone -> (row, col) -> subdivision comps
    subdiv_count,      \* number of subdivision comps indexed
    \* build_comps.py
    csv_last,          \* position in redfin_sold.csv of the last row read
    bc_comps,          \* the list comps of build_comps.py
    bc_total,          \* the counter total
    skipped,           \* the counter skipped
    skip_no_date,      \* the counter skip_no_date
    skip_outlier,      \* the counter skip_outlier
    bc_pc,             \* "read", "exit1" (no comps to write), "loaded"
    fit_comps,         \* the argument of the last fit_size_curve call
    fit_result,        \* what that call returned
    tiered_comps,      \* the argument of the last compute_clusters call
    clusters,          \* what that call returned
    \* fetch_sold_comps.py
    call_stack,        \* the frames of process_tile, innermost last
    fetch_retries,     \* the argument retries of the running fetch_tile
    fetch_requests,    \* requests sent for the tile of the innermost frame
    fetch_rows,        \* the local rows of the innermost process_tile
    all_data_rows,     \* the rows kept, each with the tile that delivered it
    fetch_pc           \* "idle", "fetch", "fetched", "done"

subdiv_vars == <<rows, zhvi, now, candidates, cluster_id, scan_i, clustered,
                 output, prev_output, runs, subdiv_pc>>

rent_vars == <<rental_comps, rental_grid, rental_comp_count, zori_by_zip,
               rent_result, rent_pc>>

\* the variables the steps of listings_build.py modelled first do not touch
btr_vars == <<neighborhoods, btr_zori_by_zip, safmr_by_zip, btr_listing, hood_ppsf, land_cost,
              btr_pc>>

subdiv_index_vars ==
    <<subdiv_comps_raw, subdiv_grid, subdiv_zone_grid, subdiv_count>>

build_comps_vars == <<csv_last, bc_comps, bc_total, skipped, skip_no_date, skip_outlier,
                      bc_pc, fit_comps, fit_result, tiered_comps, clusters>>

fetch_vars == <<call_stack, fetch_retries, fetch_requests, fetch_rows, all_data_rows,
                fetch_pc>>

\* the variables of the scripts that run before listings_build.py
upstream_vars == <<build_comps_vars, fetch_vars>>

later_vars == <<subdiv_vars, rent_vars, btr_vars, subdiv_index_vars, upstream_vars>>

vars == <<comps, all_grid, zone_grid, newcon_zone_grid, zip_zone_ppsfs,
          zip_all_ppsfs, newcon_count, listing, p75_calls, newcon_pool, pc,
          later_vars>>

index_vars == <<all_grid, zone_grid, newcon_zone_grid, zip_zone_ppsfs,
                zip_all_ppsfs, newcon_count>>

----------------------------------------------------------------------------
(* Bounds of the model *)

MaxComps == 6

----------------------------------------------------------------------------
(* Program constants *)

GRID_SIZE == 10
MIN_COMPS == 5
COMP_SQFT_MIN == 1300
COMP_SQFT_MAX == 3500
SEARCH_RADII_DEG == <<7, 15>>
NEWCON_RADII == <<7, 15, 22, 29>>
NEWCON_MIN == 3

NoneInt == -1

\* the outcome of an expression that raises IndexError
IndexError == -2

ADJACENT_ZONES ==
    [z \in {"R1", "R2", "R3", "R4", "LAND"} |->
        CASE z = "R1" -> <<"R2">>
          [] z = "R2" -> <<"R1", "R3">>
          [] z = "R3" -> <<"R2", "R4">>
          [] z = "R4" -> <<"R3">>
          [] z = "LAND" -> <<"R1">>]

----------------------------------------------------------------------------
(* Python helpers *)

Abs(x) == IF x < 0 THEN -x ELSE x

\* round(num / den) for den > 0: round half to even
PyRound(num, den) ==
    IF 2 * (num % den) > den \/ (2 * (num % den) = den /\ (num \div den) % 2 = 1)
    THEN (num \div den) + 1
    ELSE num \div den

\* the median index instead of the 75th percentile index
IntHalf(n) == n \div 2

\* the nearest-rank index ceil(0.75 * n) - 1 instead of int(0.75 * n)
IntNearestRank(n) == (3 * n + 3) \div 4 - 1

\* int(n * 0.75) for n >= 0
IntThreeQuarters(n) == (3 * n) \div 4

EmptyDict == << >>

DictGet(d, k, default) == IF k \in DOMAIN d THEN d[k] ELSE default

\* d.setdefault(k, []).append(e)
SetDefaultAppend(d, k, e) ==
    IF k \in DOMAIN d
    THEN [d EXCEPT ![k] = @ (+) SetToBag({e})]
    ELSE d @@ (k :> SetToBag({e}))

\* the elements of a stored list, one per occurrence
RECURSIVE BagToSeq(_)
BagToSeq(b) ==
    IF DOMAIN b = {} THEN << >>
    ELSE LET e == CHOOSE x \in DOMAIN b : TRUE
         IN  [i \in 1..b[e] |-> e] \o BagToSeq([x \in DOMAIN b \ {e} |-> b[x]])

\* list.sort(): ascending insertion sort
RECURSIVE Insert(_, _)
Insert(s, x) ==
    IF s = << >> THEN <<x>>
    ELSE IF x <= Head(s) THEN <<x>> \o s
    ELSE <<Head(s)>> \o Insert(Tail(s), x)

RECURSIVE SortAsc(_)
SortAsc(s) == IF s = << >> THEN << >> ELSE Insert(SortAsc(Tail(s)), Head(s))

----------------------------------------------------------------------------
(* Step 1: load comps, build the spatial index *)

\* cppsf of line 72: the stored ppsf, else round(price / sqft), else 0
CompPpsf(c) ==
    IF c.ppsf # 0 THEN c.ppsf
    ELSE IF c.sqft > 0 THEN PyRound(c.price, c.sqft) ELSE 0

Entry(c) == [lat |-> c.lat, lng |-> c.lng, ppsf |-> CompPpsf(c), sqft |-> c.sqft]

NcEntry(c) == [lat |-> c.lat, lng |-> c.lng, ppsf |-> CompPpsf(c),
               sqft |-> c.sqft, yb |-> c.yb]

CellOf(lat, lng) == <<lat \div GRID_SIZE, lng \div GRID_SIZE>>

\* the ppsf test of line 75 forgotten
SkippedCoordsOnly(c) == c.lat = 0 \/ c.lng = 0

\* the comps the loop skips (line 75)
Skipped(c) == CompPpsf(c) <= 0 \/ c.lat = 0 \/ c.lng = 0

\* yb and yb >= 2021 and czone (line 94); a missing yb is 0
IsNewcon(c) == c.yb # 0 /\ c.yb >= 2021 /\ c.zone # ""

\* zone_grid[czone].setdefault(cell, []).append(entry), creating zone_grid[czone]
ZoneGridAdd(zgrids, zone, cell, e) ==
    IF zone \in DOMAIN zgrids
    THEN [zgrids EXCEPT ![zone] = SetDefaultAppend(@, cell, e)]
    ELSE zgrids @@ (zone :> SetDefaultAppend(EmptyDict, cell, e))

\* one iteration of "for c in comps" (lines 68-106)
LoadComp(c) ==
    /\ pc = "step1"
    /\ BagCardinality(comps) < MaxComps
    /\ comps' = comps (+) SetToBag({c})
    /\ IF Skipped(c)
       THEN UNCHANGED index_vars
       ELSE LET cell == CellOf(c.lat, c.lng)
            IN  /\ zone_grid' = IF c.zone # ""
                                THEN ZoneGridAdd(zone_grid, c.zone, cell, Entry(c))
                                ELSE zone_grid
                /\ all_grid' = SetDefaultAppend(all_grid, cell, Entry(c))
                /\ newcon_zone_grid' =
                       IF IsNewcon(c)
                       THEN ZoneGridAdd(newcon_zone_grid, c.zone, cell, NcEntry(c))
                       ELSE newcon_zone_grid
                /\ newcon_count' = IF IsNewcon(c) THEN newcon_count + 1
                                   ELSE newcon_count
                /\ zip_zone_ppsfs' =
                       IF c.zip # "" /\ c.zone # ""
                       THEN SetDefaultAppend(zip_zone_ppsfs, <<c.zip, c.zone>>,
                                             CompPpsf(c))
                       ELSE zip_zone_ppsfs
                /\ zip_all_ppsfs' =
                       IF c.zip # ""
                       THEN SetDefaultAppend(zip_all_ppsfs, c.zip, CompPpsf(c))
                       ELSE zip_all_ppsfs
    /\ UNCHANGED <<listing, p75_calls, newcon_pool, pc, later_vars>>

----------------------------------------------------------------------------
(* Grid query shared by the estimators *)

\* the cell (row, col) is one of the (grow + dr, gcol + dc) visited by
\* "for dr in range(-cells, cells + 1): for dc in range(-cells, cells + 1)"
InBlock(cell, grow, gcol, cells) ==
    /\ grow - cells <= cell[1] /\ cell[1] <= grow + cells
    /\ gcol - cells <= cell[2] /\ cell[2] <= gcol + cells

\* the entries met by "for entry in grid.get(cell, [])" over a set of cells
RECURSIVE ScanCells(_, _)
ScanCells(grid, keys) ==
    IF keys = {} THEN << >>
    ELSE LET k == CHOOSE x \in keys : TRUE
         IN  BagToSeq(grid[k]) \o ScanCells(grid, keys \ {k})

InBox(e, lat, lng, radius) ==
    Abs(e.lat - lat) <= radius /\ Abs(e.lng - lng) <= radius

\* the scan without the extra ring of cells: cells = int(radius / GRID_SIZE)
collect_from_grid_NoMargin(grid, lat, lng, radius) ==
    LET cells == radius \div GRID_SIZE
        grow == lat \div GRID_SIZE
        gcol == lng \div GRID_SIZE
        block == {k \in DOMAIN grid : InBlock(k, grow, gcol, cells)}
    IN  SelectSeq(ScanCells(grid, block), LAMBDA e : InBox(e, lat, lng, radius))

\* collect_from_grid (lines 253-263); the same scan is inlined at 156-162 and
\* 185-191.  Cells of the block that hold nothing contribute nothing, so the
\* scan visits the stored cells that lie in the block.
collect_from_grid(grid, lat, lng, radius) ==
    LET cells == radius \div GRID_SIZE + 1
        grow == lat \div GRID_SIZE
        gcol == lng \div GRID_SIZE
        block == {k \in DOMAIN grid : InBlock(k, grow, gcol, cells)}
    IN  SelectSeq(ScanCells(grid, block), LAMBDA e : InBox(e, lat, lng, radius))

in_band(sqft) == COMP_SQFT_MIN <= sqft /\ sqft <= COMP_SQFT_MAX

Ppsfs(entries) == [i \in 1..Len(entries) |-> entries[i].ppsf]

\* round(radius * 69, 2) in hundredths of a mile; in binary floating point
\* 0.015 * 69 lies just below 1.035, so the tie rounds down (1.03)
Miles(radius) == (radius * 69 + 4) \div 10

----------------------------------------------------------------------------
(* Step 4: find_exit_ppsf *)

\* vals.sort(); round(vals[int(len(vals) * 0.75)])  (Python index is 0-based)
\* an index past the end of the list raises
p75(vals) ==
    IF IntThreeQuarters(Len(vals)) + 1 > Len(vals) THEN IndexError
    ELSE PyRound(SortAsc(vals)[IntThreeQuarters(Len(vals)) + 1], 1)

\* the record of one call of p75: the list as p75 leaves it (sorted in place)
\* and what the call returned
P75Call(vals) == [vals |-> SortAsc(vals), ret |-> p75(vals)]

\* "return p75(vals), len(vals), miles, method"
Ret(vals, miles, method) ==
    [value |-> p75(vals), count |-> Len(vals), radius |-> miles,
     method |-> method, calls |-> <<P75Call(vals)>>]

\* "return 0, 0, 0, 'none'" (line 217)
NoResult == [value |-> 0, count |-> 0, radius |-> 0, method |-> "none",
             calls |-> << >>]

RECURSIVE SpatialSearch(_, _, _, _, _, _)

\* the loop without its early return: every search runs to the widest radius
SpatialStepNoEarlyReturn(grid, lat, lng, full, thin, i, nearby_all, nearby_band) ==
    IF i < Len(SEARCH_RADII_DEG)
    THEN SpatialSearch(grid, lat, lng, full, thin, i + 1)
    ELSE IF Len(nearby_band) >= MIN_COMPS
    THEN Ret(nearby_band, Miles(SEARCH_RADII_DEG[i]), full)
    ELSE IF Len(nearby_all) >= MIN_COMPS
    THEN Ret(nearby_all, Miles(SEARCH_RADII_DEG[i]), full)
    ELSE IF Len(nearby_band) > 0
    THEN Ret(nearby_band, Miles(SEARCH_RADII_DEG[i]), thin)
    ELSE IF Len(nearby_all) > 0
    THEN Ret(nearby_all, Miles(SEARCH_RADII_DEG[i]), thin)
    ELSE NoResult

\* the thin fallback without its in-band preference: all sizes are returned
SpatialStepThinAllSizes(grid, lat, lng, full, thin, i, nearby_all, nearby_band) ==
    IF Len(nearby_band) >= MIN_COMPS
    THEN Ret(nearby_band, Miles(SEARCH_RADII_DEG[i]), full)
    ELSE IF i < Len(SEARCH_RADII_DEG)
    THEN SpatialSearch(grid, lat, lng, full, thin, i + 1)
    ELSE IF Len(nearby_all) >= MIN_COMPS
    THEN Ret(nearby_all, Miles(SEARCH_RADII_DEG[i]), full)
    ELSE IF Len(nearby_all) > 0
    THEN Ret(nearby_all, Miles(SEARCH_RADII_DEG[i]), thin)
    ELSE NoResult

\* one iteration of the radius loop with its two lists (163-168, 192-197) and,
\* after the widest radius, the all-size and thin-comp fallbacks (169-175,
\* 198-204)
SpatialStep(grid, lat, lng, full, thin, i, nearby_all, nearby_band) ==
    IF Len(nearby_band) >= MIN_COMPS
    THEN Ret(nearby_band, Miles(SEARCH_RADII_DEG[i]), full)
    ELSE IF i < Len(SEARCH_RADII_DEG)
    THEN SpatialSearch(grid, lat, lng, full, thin, i + 1)
    ELSE IF Len(nearby_all) >= MIN_COMPS
    THEN Ret(nearby_all, Miles(SEARCH_RADII_DEG[i]), full)
    ELSE IF Len(nearby_band) > 0
    THEN Ret(nearby_band, Miles(SEARCH_RADII_DEG[i]), thin)
    ELSE IF Len(nearby_all) > 0
    THEN Ret(nearby_all, Miles(SEARCH_RADII_DEG[i]), thin)
    ELSE NoResult

\* nearby_all and nearby_band of the entries inside the box (159-162, 188-191)
SpatialLists(grid, lat, lng, full, thin, i, near) ==
    SpatialStep(grid, lat, lng, full, thin, i, Ppsfs(near),
                Ppsfs(SelectSeq(near, LAMBDA e : in_band(e.sqft))))

\* the radius loop from the i-th radius on (152-175 and 181-204)
SpatialSearch(grid, lat, lng, full, thin, i) ==
    SpatialLists(grid, lat, lng, full, thin, i,
                 collect_from_grid(grid, lat, lng, SEARCH_RADII_DEG[i]))

\* the zip + zone aggregate accepted from one comp on
ZipFallbackZoneAtOne(zone, zipcode) ==
    IF <<zipcode, zone>> \in DOMAIN zip_zone_ppsfs
       /\ BagCardinality(zip_zone_ppsfs[<<zipcode, zone>>]) >= 1
    THEN Ret(BagToSeq(zip_zone_ppsfs[<<zipcode, zone>>]), 0, "zip+zone")
    ELSE IF zipcode \in DOMAIN zip_all_ppsfs
    THEN Ret(BagToSeq(zip_all_ppsfs[zipcode]), 0, "zip")
    ELSE NoResult

\* zip + zone, then zip, then "none" (lines 206-217)
ZipFallback(zone, zipcode) ==
    IF <<zipcode, zone>> \in DOMAIN zip_zone_ppsfs
       /\ BagCardinality(zip_zone_ppsfs[<<zipcode, zone>>]) >= 3
    THEN Ret(BagToSeq(zip_zone_ppsfs[<<zipcode, zone>>]), 0, "zip+zone")
    ELSE IF zipcode \in DOMAIN zip_all_ppsfs
    THEN Ret(BagToSeq(zip_all_ppsfs[zipcode]), 0, "zip")
    ELSE NoResult

\* the first search that returns decides
FirstFound(first, second) == IF first.method # "none" THEN first ELSE second

\* same-zone search, only "if zg" (lines 147-175)
ZoneSearch(zg, lat, lng) ==
    IF zg # EmptyDict THEN SpatialSearch(zg, lat, lng, "zone", "zone-thin", 1)
    ELSE NoResult

\* all-zone search (lines 177-204)
AllSearch(lat, lng) == SpatialSearch(all_grid, lat, lng, "all", "all-thin", 1)

\* the all-zone search tried before the same-zone search
find_exit_ppsf_AllFirst(lat, lng, zone, zipcode) ==
    FirstFound(AllSearch(lat, lng),
               FirstFound(ZoneSearch(DictGet(zone_grid, zone, EmptyDict), lat, lng),
                          ZipFallback(zone, zipcode)))

find_exit_ppsf(lat, lng, zone, zipcode) ==
    FirstFound(ZoneSearch(DictGet(zone_grid, zone, EmptyDict), lat, lng),
               FirstFound(AllSearch(lat, lng), ZipFallback(zone, zipcode)))

\* Step 4 for one listing, comps loaded (lines 772-779)
StampExit(l) ==
    /\ pc = "step1"
    /\ comps # EmptyBag
    /\ \E r \in {find_exit_ppsf(l.lat, l.lng, l.zone, l.zip)} :
           /\ p75_calls' = r.calls
           /\ IF r.value = IndexError
              THEN listing' = l /\ pc' = "crashed"
              ELSE /\ listing' =
                        l @@ [exitPsf |-> IF r.value > 0 THEN r.value ELSE NoneInt,
                              compMethod |-> r.method,
                              compCount |-> r.count,
                              compRadius |-> r.radius]
                   /\ pc' = "done"
    /\ UNCHANGED <<comps, index_vars, newcon_pool, later_vars>>

\* Step 4 for one listing, no comps loaded (lines 807-810)
SkipExit(l) ==
    /\ pc = "step1"
    /\ comps = EmptyBag
    /\ listing' = l @@ [exitPsf |-> NoneInt]
    /\ pc' = "done"
    /\ UNCHANGED <<comps, index_vars, p75_calls, newcon_pool, later_vars>>

----------------------------------------------------------------------------
(* Inputs of the exit $/SF estimator *)

Comp(lat, lng, zone, ppsf, price, sqft, zip, yb) ==
    [lat |-> lat, lng |-> lng, zone |-> zone, ppsf |-> ppsf, price |-> price,
     sqft |-> sqft, zip |-> zip, yb |-> yb]

ExitComps ==
    { Comp(34053, -118254, "R2", 100, 180000, 1800, "90026", 0),
      Comp(34062, -118250, "R2", 200, 360000, 1800, "90026", 0),
      Comp(34047, -118246, "R3", 300, 540000, 1800, "90026", 0),
      Comp(34050, -118263, "R3", 400, 720000, 1800, "90012", 0),
      Comp(34053, -118254, "R2", 500, 500000, 1000, "90026", 0),
      Comp(34062, -118250, "R2", 600, 2400000, 4000, "90026", 0),
      Comp(34070, -118250, "R2", 700, 1260000, 1800, "90026", 0),
      Comp(34050, -118232, "R3", 800, 800000, 1000, "90026", 0),
      Comp(34052, -118249, "", 0, 900000, 1800, "", 0),
      Comp(34062, -118250, "R2", 0, 100, 1800, "90026", 0) }

ExitListings ==
    [lat : {34050, 34066}, lng : {-118250}, zone : {"R2", "R3", "LAND", ""},
     zip : {"90026", ""}]

Init ==
    /\ comps = EmptyBag
    /\ all_grid = EmptyDict
    /\ zone_grid = EmptyDict
    /\ newcon_zone_grid = EmptyDict
    /\ zip_zone_ppsfs = EmptyDict
    /\ zip_all_ppsfs = EmptyDict
    /\ newcon_count = 0
    /\ listing = EmptyDict
    /\ p75_calls = << >>
    /\ newcon_pool = << >>
    /\ pc = "step1"
    /\ rows = << >>
    /\ zhvi = EmptyDict
    /\ now = 0
    /\ candidates = << >>
    /\ cluster_id = 0
    /\ scan_i = 1
    /\ clustered = << >>
    /\ output = << >>
    /\ prev_output = << >>
    /\ runs = 0
    /\ subdiv_pc = "idle"
    /\ rental_comps = EmptyBag
    /\ rental_grid = EmptyDict
    /\ rental_comp_count = 0
    /\ zori_by_zip = EmptyDict
    /\ rent_result = EmptyDict
    /\ rent_pc = "4c"
    /\ neighborhoods = EmptyDict
    /\ btr_zori_by_zip = EmptyDict
    /\ safmr_by_zip = EmptyDict
    /\ btr_listing = EmptyDict
    /\ hood_ppsf = 0
    /\ land_cost = NoneInt
    /\ btr_pc = "step1"
    /\ subdiv_comps_raw = EmptyBag
    /\ subdiv_grid = EmptyDict
    /\ subdiv_zone_grid = EmptyDict
    /\ subdiv_count = 0
    /\ csv_last = 0
    /\ bc_comps = << >>
    /\ bc_total = 0
    /\ skipped = 0
    /\ skip_no_date = 0
    /\ skip_outlier = 0
    /\ bc_pc = "read"
    /\ fit_comps = << >>
    /\ fit_result = [none |-> TRUE]
    /\ tiered_comps = << >>
    /\ clusters = << >>
    /\ call_stack = << >>
    /\ fetch_retries = 0
    /\ fetch_requests = 0
    /\ fetch_rows = [data_count |-> 0, homes |-> {}]
    /\ all_data_rows = {}
    /\ fetch_pc = "idle"

LoadExitComp == \E c \in ExitComps : LoadComp(c)

StampExitListing == \E l \in ExitListings : StampExit(l)

SkipExitListing == \E l \in ExitListings : SkipExit(l)

NextExit == LoadExitComp \/ StampExitListing \/ SkipExitListing

SpecExit == Init /\ [][NextExit]_vars

----------------------------------------------------------------------------
(* Step 4b: find_newcon_ppsf *)

\* the 2021-2022 comps pooled at their full price
NoHaircut(ppsf) == ppsf

\* round(cppsf * 0.90)
Haircut(ppsf) == PyRound(ppsf * 9, 10)

\* the price a pooled comp contributes: 2021-2022 comps take the haircut
TierPpsf(e) == IF e.yb <= 2022 THEN Haircut(e.ppsf) ELSE e.ppsf

\* what try_tiers returns; pool keeps the entries behind ppsf_list
TierOut(pool, tier, has_stale) ==
    [pool |-> pool, ppsf_list |-> [i \in 1..Len(pool) |-> TierPpsf(pool[i])],
     tier |-> tier, has_stale |-> has_stale]

\* the cascade over the three vintage lists (lines 270-287)
TierCascade(t1, t2, t3) ==
    IF Len(t1) >= MIN_COMPS THEN TierOut(t1, "2024-25", FALSE)
    ELSE IF Len(t2) >= MIN_COMPS THEN TierOut(t2, "2023+", FALSE)
    ELSE IF Len(t2) + Len(t3) >= NEWCON_MIN
    THEN TierOut(t2 \o t3, IF t3 # << >> THEN "2021-22 adj" ELSE "2023+",
                 t3 # << >>)
    ELSE TierOut(t2 \o t3, "None", t3 # << >>)

\* try_tiers (lines 265-287)
try_tiers(raw_comps) ==
    TierCascade(
        SelectSeq(raw_comps, LAMBDA e : e.yb >= 2024 /\ in_band(e.sqft)),
        SelectSeq(raw_comps, LAMBDA e : e.yb >= 2023 /\ in_band(e.sqft)),
        SelectSeq(raw_comps,
                  LAMBDA e : 2021 <= e.yb /\ e.yb <= 2022 /\ in_band(e.sqft)))

\* the rejected value returned instead of None
SanityCheckKeepsLow(val, t, zone_matched, flag, exit_psf) ==
    [count |-> Len(t.ppsf_list), tier |-> t.tier, zone_matched |-> zone_matched,
     calls |-> <<P75Call(t.ppsf_list)>>, pool |-> t.pool,
     value |-> val,
     flag |-> IF exit_psf > 0 /\ 4 * val < 3 * exit_psf THEN "sanity-low"
              ELSE IF exit_psf > 0 /\ 2 * val > 3 * exit_psf THEN "sanity-high"
              ELSE flag]

\* the upper bound set at 125% of the general P75 instead of 150%
SanityCheckHighAt125(val, t, zone_matched, flag, exit_psf) ==
    [count |-> Len(t.ppsf_list), tier |-> t.tier, zone_matched |-> zone_matched,
     calls |-> <<P75Call(t.ppsf_list)>>, pool |-> t.pool,
     value |-> IF exit_psf > 0 /\ 4 * val < 3 * exit_psf THEN NoneInt ELSE val,
     flag |-> IF exit_psf > 0 /\ 4 * val < 3 * exit_psf THEN "sanity-low"
              ELSE IF exit_psf > 0 /\ 4 * val > 5 * exit_psf THEN "sanity-high"
              ELSE flag]

\* the sanity check of val against the general P75 (300-306, 331-337)
SanityCheck(val, t, zone_matched, flag, exit_psf) ==
    [count |-> Len(t.ppsf_list), tier |-> t.tier, zone_matched |-> zone_matched,
     calls |-> <<P75Call(t.ppsf_list)>>, pool |-> t.pool,
     value |-> IF exit_psf > 0 /\ 4 * val < 3 * exit_psf THEN NoneInt ELSE val,
     flag |-> IF exit_psf > 0 /\ 4 * val < 3 * exit_psf THEN "sanity-low"
              ELSE IF exit_psf > 0 /\ 2 * val > 3 * exit_psf THEN "sanity-high"
              ELSE flag]

\* val = p75(ppsf_list), then the sanity check and the return
SanityReturn(t, zone_matched, flag, exit_psf) ==
    SanityCheck(p75(t.ppsf_list), t, zone_matched, flag, exit_psf)

\* "return None, 0, None, None, None" (line 340)
NoNewcon == [value |-> NoneInt, count |-> 0, tier |-> "None",
             zone_matched |-> "None", flag |-> "None", calls |-> << >>,
             pool |-> << >>]

\* marks where an entry was collected: the own zone's grid or an adjacent one
Tag(entries, cross) == [i \in 1..Len(entries) |-> entries[i] @@ [cross |-> cross]]

\* raw of line 293 / raw_same of line 319
RawSame(zg, lat, lng, radius) ==
    IF zg # EmptyDict THEN Tag(collect_from_grid(zg, lat, lng, radius), FALSE)
    ELSE << >>

\* raw_cross of lines 312-317
RECURSIVE RawCross(_, _, _, _)
RawCross(adj_zones, lat, lng, radius) ==
    IF adj_zones = << >> THEN << >>
    ELSE (IF DictGet(newcon_zone_grid, Head(adj_zones), EmptyDict) # EmptyDict
          THEN Tag(collect_from_grid(newcon_zone_grid[Head(adj_zones)],
                                     lat, lng, radius), TRUE)
          ELSE << >>)
         \o RawCross(Tail(adj_zones), lat, lng, radius)

\* flag of line 299
SameZoneFlag(t) == IF Len(t.ppsf_list) < MIN_COMPS + 2 THEN "thin"
                   ELSE IF t.has_stale THEN "stale" ELSE "None"

RECURSIVE SameZonePhase(_, _, _, _, _)

\* the iteration going on to the next radius after a sanity-low rejection
SameZoneStepPastLow(zg, lat, lng, exit_psf, i, raw, t) ==
    IF /\ raw # << >> /\ t.tier # "None" /\ Len(t.ppsf_list) >= MIN_COMPS
       /\ ~(exit_psf > 0 /\ 4 * p75(t.ppsf_list) < 3 * exit_psf)
    THEN SanityReturn(t, "True", SameZoneFlag(t), exit_psf)
    ELSE SameZonePhase(zg, lat, lng, exit_psf, i + 1)

\* one iteration of the Phase 1 loop (lines 294-307)
SameZoneStep(zg, lat, lng, exit_psf, i, raw, t) ==
    IF raw # << >> /\ t.tier # "None" /\ Len(t.ppsf_list) >= MIN_COMPS
    THEN SanityReturn(t, "True", SameZoneFlag(t), exit_psf)
    ELSE SameZonePhase(zg, lat, lng, exit_psf, i + 1)

SameZoneTiers(zg, lat, lng, exit_psf, i, raw) ==
    SameZoneStep(zg, lat, lng, exit_psf, i, raw, try_tiers(raw))

\* Phase 1 (lines 289-307) from the i-th radius on; NoNewcon when it runs out
SameZonePhase(zg, lat, lng, exit_psf, i) ==
    IF i > Len(NEWCON_RADII) THEN NoNewcon
    ELSE SameZoneTiers(zg, lat, lng, exit_psf, i,
                       RawSame(zg, lat, lng, NEWCON_RADII[i]))

RECURSIVE CrossZonePhase(_, _, _, _, _, _)

\* one iteration of the Phase 2 loop (lines 321-337)
CrossZoneStep(zg, adj_zones, lat, lng, exit_psf, i, raw_all, t) ==
    IF raw_all # << >> /\ t.tier # "None" /\ Len(t.ppsf_list) >= NEWCON_MIN
    THEN SanityReturn(t, "False", "cross-zone", exit_psf)
    ELSE CrossZonePhase(zg, adj_zones, lat, lng, exit_psf, i + 1)

CrossZoneTiers(zg, adj_zones, lat, lng, exit_psf, i, raw_all) ==
    CrossZoneStep(zg, adj_zones, lat, lng, exit_psf, i, raw_all,
                  try_tiers(raw_all))

\* Phase 2 (lines 309-337) from the i-th radius on
CrossZonePhase(zg, adj_zones, lat, lng, exit_psf, i) ==
    IF i > Len(NEWCON_RADII) THEN NoNewcon
    ELSE CrossZoneTiers(zg, adj_zones, lat, lng, exit_psf, i,
                        RawSame(zg, lat, lng, NEWCON_RADII[i])
                        \o RawCross(adj_zones, lat, lng, NEWCON_RADII[i]))

\* a phase returned: with a value, or with the sanity-low rejection
FirstReturned(first, second) ==
    IF first.zone_matched # "None" THEN first ELSE second

find_newcon_ppsf(lat, lng, zone, exit_psf) ==
    FirstReturned(
        SameZonePhase(DictGet(newcon_zone_grid, zone, EmptyDict),
                      lat, lng, exit_psf, 1),
        CrossZonePhase(DictGet(newcon_zone_grid, zone, EmptyDict),
                       DictGet(ADJACENT_ZONES, zone, << >>),
                       lat, lng, exit_psf, 1))

\* l.get("exitPsf") or 0
ExitPsfOrZero(l) ==
    IF "exitPsf" \in DOMAIN l /\ l.exitPsf # NoneInt THEN l.exitPsf ELSE 0

\* Step 4b for one listing, new-construction comps present (lines 819-829)
StampNewcon(l) ==
    /\ pc = "step1"
    /\ newcon_count > 0
    /\ \E r \in {find_newcon_ppsf(l.lat, l.lng, l.zone, ExitPsfOrZero(l))} :
           /\ p75_calls' = r.calls
           /\ newcon_pool' = r.pool
           /\ IF r.calls # << >> /\ r.calls[1].ret = IndexError
              THEN listing' = l /\ pc' = "crashed"
              ELSE /\ listing' = l @@ [newconPpsf |-> r.value,
                                       newconCount |-> r.count,
                                       newconTier |-> r.tier,
                                       newconZoneMatch |-> r.zone_matched,
                                       newconFlag |-> r.flag]
                   /\ pc' = "done"
    /\ UNCHANGED <<comps, index_vars, later_vars>>

\* Step 4b for one listing, no new-construction comps (lines 850-857)
SkipNewcon(l) ==
    /\ pc = "step1"
    /\ newcon_count = 0
    /\ listing' = l @@ [newconPpsf |-> NoneInt, newconCount |-> 0,
                        newconTier |-> "None", newconZoneMatch |-> "None",
                        newconFlag |-> "None"]
    /\ pc' = "done"
    /\ UNCHANGED <<comps, index_vars, p75_calls, newcon_pool, later_vars>>

----------------------------------------------------------------------------
(* Inputs of the new-construction estimator *)

NewconComps ==
    { Comp(34053, -118254, "R2", 650, 1170000, 1800, "90026", 2024),
      Comp(34047, -118246, "R2", 350, 630000, 1800, "90026", 2024),
      Comp(34062, -118250, "R2", 800, 1440000, 1800, "90026", 2023),
      Comp(34062, -118250, "R2", 415, 747000, 1800, "90026", 2022),
      Comp(34053, -118254, "R3", 750, 1350000, 1800, "90026", 2024),
      Comp(34070, -118250, "R3", 375, 675000, 1800, "90026", 2023),
      Comp(34053, -118254, "R2", 900, 900000, 1000, "90026", 2024),
      Comp(34047, -118246, "R4", 500, 900000, 1800, "90026", 2024),
      Comp(34053, -118254, "R2", 700, 1260000, 1800, "90026", 2020),
      Comp(34077, -118250, "R2", 375, 675000, 1800, "90026", 2021) }

\* listings as Step 4 leaves them: exitPsf is None or the general estimate
NewconListings ==
    [lat : {34050}, lng : {-118250}, zone : {"R2", "R3", "R4", ""},
     zip : {"90026"}, exitPsf : {NoneInt, 500}]

LoadNewconComp == \E c \in NewconComps : LoadComp(c)

StampNewconListing == \E l \in NewconListings : StampNewcon(l)

SkipNewconListing == \E l \in NewconListings : SkipNewcon(l)

NextNewcon == LoadNewconComp \/ StampNewconListing \/ SkipNewconListing

SpecNewcon == Init /\ [][NextNewcon]_vars

----------------------------------------------------------------------------
(* What the loaded comps say, read off the comps themselves and not the grids *)

RECURSIVE SumCounts(_, _)
SumCounts(b, S) ==
    IF S = {} THEN 0
    ELSE LET c == CHOOSE x \in S : TRUE
         IN  b[c] + SumCounts(b, S \ {c})

\* the number of loaded comps that pass Test
NumComps(Test(_)) == SumCounts(comps, {c \in DOMAIN comps : Test(c)})

\* a comp the estimators may use: positive $/SF, coordinates present
Usable(c) == CompPpsf(c) > 0 /\ c.lat # 0 /\ c.lng # 0

\* within the square of the given half-width around the listing
Near(c, radius) ==
    Abs(c.lat - listing.lat) <= radius /\ Abs(c.lng - listing.lng) <= radius

\* of the listing's zone; an unknown zone ("") matches nothing
SameZone(c) == listing.zone # "" /\ c.zone = listing.zone

Band(c) == 1300 <= c.sqft /\ c.sqft <= 3500

CountIn(seq, v) == Cardinality({i \in 1..Len(seq) : seq[i] = v})

\* floor(0.75 * n), by its defining inequalities
Floor75(n) == CHOOSE k \in 0..n : 4 * k <= 3 * n /\ 3 * n < 4 * (k + 1)

\* v is the element at sorted index floor(0.75 n) of the $/SF of the comps
\* that pass Test
IsP75Of(v, Test(_)) ==
    /\ NumComps(LAMBDA c : Test(c) /\ CompPpsf(c) = v) >= 1
    /\ NumComps(LAMBDA c : Test(c) /\ CompPpsf(c) < v) <= Floor75(NumComps(Test))
    /\ NumComps(LAMBDA c : Test(c) /\ CompPpsf(c) <= v) > Floor75(NumComps(Test))

ExitStamped == pc = "done" /\ "compMethod" \in DOMAIN listing

SameZoneWidest(c) == Usable(c) /\ SameZone(c) /\ Near(c, 15)

SameZoneBandWidest(c) == SameZoneWidest(c) /\ Band(c)

----------------------------------------------------------------------------
(* C1 *)

\* C1: whenever at least one comp of the listing's zone lies within the widest
\* radius, find_exit_ppsf answers 'zone' or 'zone-thin' and every value it
\* passed to p75 is the $/SF of a same-zone comp within that radius, however
\* many other-zone comps are near; 'all' and 'all-thin' are answered only when
\* no same-zone comp lies within the widest radius.
ZonePriority ==
    ExitStamped =>
        /\ NumComps(SameZoneWidest) >= 1 =>
              /\ listing.compMethod \in {"zone", "zone-thin"}
              /\ Len(p75_calls) = 1
              /\ \A i \in 1..Len(p75_calls[1].vals) :
                    CountIn(p75_calls[1].vals, p75_calls[1].vals[i])
                      <= NumComps(LAMBDA c : SameZoneWidest(c)
                                      /\ CompPpsf(c) = p75_calls[1].vals[i])
        /\ listing.compMethod \in {"all", "all-thin"} =>
              NumComps(SameZoneWidest) = 0

\* one same-zone comp against five in-band other-zone comps inside the first
\* radius: the single same-zone comp is the answer
ZonePriorityWitness ==
    /\ ExitStamped
    /\ listing.compMethod = "zone-thin"
    /\ listing.compCount = 1
    /\ NumComps(LAMBDA c : Usable(c) /\ ~SameZone(c) /\ Band(c) /\ Near(c, 7)) >= 5

----------------------------------------------------------------------------
(* C2 *)

Spatial == {"zone", "zone-thin", "all", "all-thin"}

\* the comps the radius ladder of the answered search counts
LadderComp(c) ==
    /\ Usable(c) /\ Band(c)
    /\ listing.compMethod \in {"zone", "zone-thin"} => SameZone(c)

\* C2: a spatial answer names the first radius (0.48 mi) exactly when the
\* in-band count there reaches 5, and then reports that count; otherwise it
\* names the second radius (1.03 mi), with the in-band count of the second
\* radius when that count reaches 5.
RadiusLadder ==
    (ExitStamped /\ listing.compMethod \in Spatial) =>
        /\ NumComps(LAMBDA c : LadderComp(c) /\ Near(c, 7)) >= 5 =>
              /\ listing.compRadius = 48
              /\ listing.compCount = NumComps(LAMBDA c : LadderComp(c) /\ Near(c, 7))
              /\ listing.compMethod \in {"zone", "all"}
        /\ NumComps(LAMBDA c : LadderComp(c) /\ Near(c, 7)) < 5 =>
              /\ listing.compRadius = 103
              /\ NumComps(LAMBDA c : LadderComp(c) /\ Near(c, 15)) >= 5 =>
                    /\ listing.compCount
                         = NumComps(LAMBDA c : LadderComp(c) /\ Near(c, 15))
                    /\ listing.compMethod \in {"zone", "all"}

\* exactly five in-band same-zone comps inside the second radius, none inside
\* the first
RadiusLadderWitness ==
    /\ ExitStamped
    /\ listing.compMethod = "zone"
    /\ listing.compRadius = 103
    /\ NumComps(LAMBDA c : SameZoneBandWidest(c)) = 5
    /\ NumComps(LAMBDA c : SameZoneBandWidest(c) /\ Near(c, 7)) = 0

----------------------------------------------------------------------------
(* C3 *)

\* C3 as stated: with 1 to 4 same-zone comps within the widest radius the
\* answer is 'zone-thin', its count is the number of those comps and its
\* value their P75.
ThinReturnsEverySameZoneComp ==
    (ExitStamped /\ NumComps(SameZoneWidest) \in 1..4) =>
        /\ listing.compMethod = "zone-thin"
        /\ listing.compCount = NumComps(SameZoneWidest)
        /\ IsP75Of(listing.exitPsf, SameZoneWidest)

\* C3 as amended: with 1 to 4 same-zone comps within the widest radius the
\* answer is 'zone-thin' at the widest radius, never null; it is made of the
\* in-band (1300-3500 SF) ones among them when there is at least one, and of
\* all of them otherwise: the count is the size of that set and the value its
\* P75.
ThinFallback ==
    (ExitStamped /\ NumComps(SameZoneWidest) \in 1..4) =>
        /\ listing.compMethod = "zone-thin"
        /\ listing.compRadius = 103
        /\ listing.exitPsf # NoneInt
        /\ IF NumComps(SameZoneBandWidest) >= 1
           THEN /\ listing.compCount = NumComps(SameZoneBandWidest)
                /\ IsP75Of(listing.exitPsf, SameZoneBandWidest)
           ELSE /\ listing.compCount = NumComps(SameZoneWidest)
                /\ IsP75Of(listing.exitPsf, SameZoneWidest)

\* two same-zone comps within the widest radius and none within the first,
\* one of them outside the size band: the in-band one alone is the answer
ThinFallbackWitness ==
    /\ ExitStamped
    /\ listing.compMethod = "zone-thin"
    /\ NumComps(SameZoneWidest) = 2
    /\ NumComps(LAMBDA c : SameZoneWidest(c) /\ Near(c, 7)) = 0
    /\ NumComps(SameZoneBandWidest) = 1
    /\ listing.compCount = 1

----------------------------------------------------------------------------
(* C4 *)

Methods == {"zone", "zone-thin", "all", "all-thin", "zip+zone", "zip", "none"}

\* a comp some step of find_exit_ppsf can find for the listing
Findable(c) ==
    Usable(c) /\ (Near(c, 15) \/ (c.zip # "" /\ c.zip = listing.zip))

\* C4: stamping never raises; the method is one of the seven; it is 'none'
\* exactly when no usable comp lies within the widest radius and none shares
\* the listing's zip, and then exitPsf is null and the count 0; with any other
\* method exitPsf is positive and the count at least 1.
ExitAlwaysAnswers ==
    /\ pc # "crashed"
    /\ ExitStamped =>
          /\ listing.compMethod \in Methods
          /\ listing.compMethod = "none" <=> NumComps(Findable) = 0
          /\ listing.compMethod = "none" =>
                listing.exitPsf = NoneInt /\ listing.compCount = 0
          /\ listing.compMethod # "none" =>
                listing.exitPsf > 0 /\ listing.compCount >= 1

\* a listing without zone and zip, usable comps loaded but none in reach
ExitAlwaysAnswersWitness ==
    /\ ExitStamped
    /\ listing.zone = "" /\ listing.zip = ""
    /\ NumComps(Usable) >= 1
    /\ listing.compMethod = "none"
    /\ listing.exitPsf = NoneInt

----------------------------------------------------------------------------
(* C5, C6 *)

IsSorted(seq) == \A i \in 1..(Len(seq) - 1) : seq[i] <= seq[i + 1]

\* C5: every call of p75 made by find_exit_ppsf is on a non-empty list, the
\* index floor(0.75 n) is within the list, and the call returns the element
\* at that (zero-based) index of the ascending list; no call raises.
P75IndexLaw ==
    /\ pc # "crashed"
    /\ \A i \in 1..Len(p75_calls) :
          /\ Len(p75_calls[i].vals) >= 1
          /\ Floor75(Len(p75_calls[i].vals)) < Len(p75_calls[i].vals)
          /\ IsSorted(p75_calls[i].vals)
          /\ p75_calls[i].ret
               = p75_calls[i].vals[Floor75(Len(p75_calls[i].vals)) + 1]

\* a call on six values whose fifth (index 4) differs from its neighbours
P75IndexLawWitness ==
    /\ Len(p75_calls) = 1
    /\ Len(p75_calls[1].vals) = 6
    /\ p75_calls[1].vals[4] < p75_calls[1].vals[5]
    /\ p75_calls[1].vals[5] < p75_calls[1].vals[6]
    /\ p75_calls[1].ret = p75_calls[1].vals[5]

\* C6 as stated: the P75 of [100, 200, 300, 400] is 300.
P75FixtureIs300 ==
    \A i \in 1..Len(p75_calls) :
        p75_calls[i].vals = <<100, 200, 300, 400>> => p75_calls[i].ret = 300

\* C6 as amended: the P75 of [100, 200, 300, 400] is 400, the element at
\* zero-based index floor(0.75 * 4) = 3.
P75FixtureIs400 ==
    \A i \in 1..Len(p75_calls) :
        p75_calls[i].vals = <<100, 200, 300, 400>> => p75_calls[i].ret = 400

\* p75 was called on the four comps priced 100, 200, 300 and 400
P75FixtureWitness ==
    /\ Len(p75_calls) = 1
    /\ p75_calls[1].vals = <<100, 200, 300, 400>>

----------------------------------------------------------------------------
(* C7, C8 *)

NewconStamped == pc = "done" /\ "newconFlag" \in DOMAIN listing

\* the listing carries a positive general estimate
HasGeneral == "exitPsf" \in DOMAIN listing /\ listing.exitPsf > 0

SanityFlags == {"sanity-low", "sanity-high"}

\* C7: given a positive general estimate G, a returned value is at least
\* 0.75 G; a computed P75 below 0.75 G gives a null value flagged 'sanity-low',
\* one above 1.50 G is returned flagged 'sanity-high', one in between is
\* returned with neither flag; a sanity flag is set only on a computed P75.
NewconSanityBound ==
    (NewconStamped /\ HasGeneral) =>
        /\ listing.newconPpsf # NoneInt =>
              4 * listing.newconPpsf >= 3 * listing.exitPsf
        /\ listing.newconFlag \in SanityFlags => Len(p75_calls) = 1
        /\ \A i \in 1..Len(p75_calls) :
              /\ 4 * p75_calls[i].ret < 3 * listing.exitPsf =>
                    /\ listing.newconPpsf = NoneInt
                    /\ listing.newconFlag = "sanity-low"
              /\ 2 * p75_calls[i].ret > 3 * listing.exitPsf =>
                    /\ listing.newconPpsf = p75_calls[i].ret
                    /\ listing.newconFlag = "sanity-high"
              /\ (4 * p75_calls[i].ret >= 3 * listing.exitPsf
                  /\ 2 * p75_calls[i].ret <= 3 * listing.exitPsf) =>
                    /\ listing.newconPpsf = p75_calls[i].ret
                    /\ listing.newconFlag \notin SanityFlags

\* a cross-zone pool whose P75 lies below 75% of the general estimate
NewconSanityBoundWitness ==
    /\ NewconStamped /\ HasGeneral
    /\ listing.newconZoneMatch = "False"
    /\ \E i \in 1..Len(newcon_pool) : newcon_pool[i].cross
    /\ Len(p75_calls) = 1
    /\ 4 * p75_calls[1].ret < 3 * listing.exitPsf
    /\ listing.newconPpsf = NoneInt
    /\ listing.newconFlag = "sanity-low"

\* C8 as stated: a computed P75 at 130% of the general estimate is returned
\* and flagged 'sanity-high'.
NewconAt130FlaggedHigh ==
    (NewconStamped /\ HasGeneral) =>
        \A i \in 1..Len(p75_calls) :
            10 * p75_calls[i].ret = 13 * listing.exitPsf =>
                /\ listing.newconPpsf = p75_calls[i].ret
                /\ listing.newconFlag = "sanity-high"

\* C8 as amended: a computed P75 at 130% of the general estimate is returned
\* and carries no sanity flag ('sanity-high' is set only above 150%).
NewconAt130Accepted ==
    (NewconStamped /\ HasGeneral) =>
        \A i \in 1..Len(p75_calls) :
            10 * p75_calls[i].ret = 13 * listing.exitPsf =>
                /\ listing.newconPpsf = p75_calls[i].ret
                /\ listing.newconFlag \notin SanityFlags

\* $650/SF computed against a general estimate of $500/SF
NewconAt130Witness ==
    /\ NewconStamped
    /\ listing.exitPsf = 500
    /\ Len(p75_calls) = 1
    /\ p75_calls[1].ret = 650
    /\ listing.newconPpsf = 650

----------------------------------------------------------------------------
(* C9, C10 *)

NewconLadder == {7, 15, 22, 29}

\* a new-construction comp the tiers can pool: built 2021 or later, zoned,
\* within the size band
Qualifying(c) == Usable(c) /\ c.yb >= 2021 /\ c.zone # "" /\ Band(c)

AdjacentZone(c) ==
    /\ listing.zone \in DOMAIN ADJACENT_ZONES
    /\ \E i \in 1..Len(ADJACENT_ZONES[listing.zone]) :
          c.zone = ADJACENT_ZONES[listing.zone][i]

\* C9: no value is computed from fewer than 3 comps; 3 qualifying same-zone
\* comps within a radius of the ladder are accepted by the same-zone phase
\* (zone_matched = True), and 3 qualifying comps of the own and adjacent zones
\* are accepted by the cross-zone phase at the latest.
NewconMinThree ==
    NewconStamped =>
        /\ listing.newconPpsf # NoneInt => listing.newconCount >= 3
        /\ (\E r \in NewconLadder :
               NumComps(LAMBDA c : Qualifying(c) /\ SameZone(c) /\ Near(c, r)) >= 3)
              => listing.newconZoneMatch = "True"
        /\ (\E r \in NewconLadder :
               NumComps(LAMBDA c : Qualifying(c) /\ Near(c, r)
                                   /\ (SameZone(c) \/ AdjacentZone(c))) >= 3)
              => listing.newconZoneMatch # "None"

\* the parts of C9 the code keeps: the count behind a value, and acceptance by
\* one of the two phases
NewconMinThreeEitherPhase ==
    NewconStamped =>
        /\ listing.newconPpsf # NoneInt => listing.newconCount >= 3
        /\ (\E r \in NewconLadder :
               NumComps(LAMBDA c : Qualifying(c) /\ Near(c, r)
                                   /\ (SameZone(c) \/ AdjacentZone(c))) >= 3)
              => listing.newconZoneMatch # "None"

\* C10: a result is tagged zone_matched = False exactly when its pool holds a
\* comp collected from an adjacent zone.
NewconCrossTag ==
    (NewconStamped /\ listing.newconZoneMatch # "None") =>
        (listing.newconZoneMatch = "False"
            <=> \E i \in 1..Len(newcon_pool) : newcon_pool[i].cross)

\* the direction of C10 the code keeps: a pool holding an adjacent-zone comp is
\* tagged zone_matched = False
NewconCrossTagged ==
    (NewconStamped /\ \E i \in 1..Len(newcon_pool) : newcon_pool[i].cross) =>
        listing.newconZoneMatch = "False"

----------------------------------------------------------------------------
(* build_subdiv_comps.py *)
(* Dates are day numbers; lat/lng are millidegrees; appreciation rates and *)
(* appr_pct are tenths of a percent.                                       *)

MaxRows == 3
MaxRuns == 2

MIN_YEAR_BUILT == 2019
MAX_LOT_SF == 4000
MIN_LOT_SF == 1000
MIN_SQFT == 1200
MAX_SQFT == 2500
MIN_PRICE == 400000
SUBDIV_PROP_TYPES == {"Single Family Residential", "Townhouse", "Condo/Co-op"}
CLUSTER_PROXIMITY_DEG == 3
CLUSTER_MAX_MONTHS == 18
MAX_ADJUSTMENT_PCT == 30

TYPE_TO_ZONE ==
    [t \in {"Single Family Residential", "Townhouse", "Condo/Co-op",
            "Multi-Family (2-4 Unit)", "Multi-Family (5+ Unit)",
            "Mobile/Manufactured Home", "Ranch", "Vacant Land", "Other"} |->
        CASE t \in {"Single Family Residential", "Mobile/Manufactured Home",
                    "Ranch"} -> "R1"
          [] t \in {"Townhouse", "Condo/Co-op"} -> "R2"
          [] t = "Multi-Family (2-4 Unit)" -> "R3"
          [] t = "Multi-Family (5+ Unit)" -> "R4"
          [] OTHER -> "LAND"]

\* Step 1: the filters a row passes to become a candidate (lines 66-119);
\* yb is NoneInt when YEAR BUILT is not a number, sold is NoneInt when SOLD
\* DATE is empty or unparseable
IsCandidate(row) ==
    /\ row.yb # NoneInt
    /\ row.yb >= MIN_YEAR_BUILT
    /\ ~(row.lot < MIN_LOT_SF \/ row.lot > MAX_LOT_SF)
    /\ ~(row.sqft < MIN_SQFT \/ row.sqft > MAX_SQFT)
    /\ ~(row.price < MIN_PRICE)
    /\ row.type \in SUBDIV_PROP_TYPES
    /\ row.sold # NoneInt

\* the dict appended to candidates (lines 121-137), with the cluster_id of
\* line 165
Candidate(row) ==
    [lat |-> row.lat, lng |-> row.lng, ppsf |-> PyRound(row.price, row.sqft),
     price |-> row.price, sqft |-> row.sqft, lot |-> row.lot, yb |-> row.yb,
     sold_date |-> row.sold, zip |-> row.zip,
     zone |-> DictGet(TYPE_TO_ZONE, row.type, ""),
     cluster_id |-> NoneInt]

RECURSIVE ReadCandidates(_)
ReadCandidates(rs) ==
    IF rs = << >> THEN << >>
    ELSE IF IsCandidate(Head(rs))
         THEN <<Candidate(Head(rs))>> \o ReadCandidates(Tail(rs))
         ELSE ReadCandidates(Tail(rs))

\* the sort key (c["lat"], c["lng"]) of line 160
KeyLeq(a, b) == a.lat < b.lat \/ (a.lat = b.lat /\ a.lng <= b.lng)

\* candidates.sort(key=...): stable, ascending
RECURSIVE InsertByKey(_, _)
InsertByKey(sorted, c) ==
    IF sorted = << >> THEN <<c>>
    ELSE IF KeyLeq(Head(sorted), c)
         THEN <<Head(sorted)>> \o InsertByKey(Tail(sorted), c)
         ELSE <<c>> \o sorted

RECURSIVE SortByKey(_, _)
SortByKey(sorted, rest) ==
    IF rest = << >> THEN sorted
    ELSE SortByKey(InsertByKey(sorted, Head(rest)), Tail(rest))

\* lines 183-184
Proximate(c, d) ==
    /\ Abs(c.lat - d.lat) <= CLUSTER_PROXIMITY_DEG
    /\ Abs(c.lng - d.lng) <= CLUSTER_PROXIMITY_DEG

\* the window taken from any member the cluster has so far
InWindowOfAnyMember(cs, cluster_members, c, d) ==
    \E k \in 1..Len(cluster_members) :
        Abs(cs[cluster_members[k]].sold_date - d.sold_date) <= CLUSTER_MAX_MONTHS * 30

\* lines 186-192: the loop runs over the members, the test compares the seed c
\* with d
InWindow(cs, cluster_members, c, d) ==
    \E k \in 1..Len(cluster_members) :
        Abs(c.sold_date - d.sold_date) <= CLUSTER_MAX_MONTHS * 30

\* the forward scan "for j in range(i + 1, len(candidates))" (lines 177-195)
RECURSIVE ScanNeighbors(_, _, _, _, _)
ScanNeighbors(cs, i, j, cluster_members, cid) ==
    IF j > Len(cs) THEN cs
    ELSE IF cs[j].cluster_id # NoneInt
         THEN ScanNeighbors(cs, i, j + 1, cluster_members, cid)
    ELSE IF Proximate(cs[i], cs[j]) /\ InWindow(cs, cluster_members, cs[i], cs[j])
         THEN ScanNeighbors([cs EXCEPT ![j].cluster_id = cid], i, j + 1,
                            Append(cluster_members, j), cid)
    ELSE ScanNeighbors(cs, i, j + 1, cluster_members, cid)

\* cluster_sizes[cid] (lines 198-201)
ClusterSizeOf(cs, cid) == Cardinality({k \in 1..Len(cs) : cs[k].cluster_id = cid})

\* lines 204-207: the comps of clusters of 2 or more, tagged with the size
RECURSIVE KeepClustered(_, _)
KeepClustered(cs, k) ==
    IF k > Len(cs) THEN << >>
    ELSE IF ClusterSizeOf(cs, cs[k].cluster_id) >= 2
         THEN <<cs[k] @@ [cluster_size |-> ClusterSizeOf(cs, cs[k].cluster_id)]>>
              \o KeepClustered(cs, k + 1)
         ELSE KeepClustered(cs, k + 1)

\* lines 216-221: every candidate, as a cluster of one
AllAsSingletons(cs) == [k \in 1..Len(cs) |-> cs[k] @@ [cluster_size |-> 1]]

\* the fallback to all candidates left out
FilterOrNothing(cs, kept) == kept

\* lines 204-221
FilterOrFallback(cs, kept) == IF kept = << >> THEN AllAsSingletons(cs) ELSE kept

\* lines 240-243
Appr12mo(z, zipcode) ==
    IF zipcode \in DOMAIN z /\ "appr_12mo" \in DOMAIN z[zipcode]
    THEN z[zipcode].appr_12mo
    ELSE 0

RECURSIVE Gcd(_, _)
Gcd(a, b) == IF b = 0 THEN a ELSE Gcd(b, a % b)

RECURSIVE Pow(_, _)
Pow(b, k) == IF k = 0 THEN 1 ELSE b * Pow(b, k - 1)

\* 1 + annual_rate as a fraction in lowest terms (line 247)
OnePlusRate(appr) ==
    <<(1000 + appr) \div Gcd(1000 + appr, 1000), 1000 \div Gcd(1000 + appr, 1000)>>

\* (1 + annual_rate) ** (months_ago / 12.0) (line 248); months_ago / 12 is
\* days / 360, a whole number for the sale dates and run dates modelled
RawFactor(r, days) == <<Pow(r[1], days \div 360), Pow(r[2], days \div 360)>>

\* the raw factor used without the cap
Unclamped(f) == f

\* max(1 - cap, min(1 + cap, raw_factor)) (line 250)
Clamp(f) ==
    IF 100 * f[1] > (100 + MAX_ADJUSTMENT_PCT) * f[2]
    THEN <<100 + MAX_ADJUSTMENT_PCT, 100>>
    ELSE IF 100 * f[1] < (100 - MAX_ADJUSTMENT_PCT) * f[2]
    THEN <<100 - MAX_ADJUSTMENT_PCT, 100>>
    ELSE f

\* lines 251-252 for the factor f
AdjustBy(c, f) ==
    c @@ [adj_ppsf |-> PyRound(c.ppsf * f[1], f[2]),
          appr_pct |-> PyRound((f[1] - f[2]) * 1000, f[2])]

\* one iteration of the loop of lines 237-258
Adjusted(c, z, today) ==
    IF Appr12mo(z, c.zip) # 0 /\ today - c.sold_date > 0
    THEN AdjustBy(c, Clamp(RawFactor(OnePlusRate(Appr12mo(z, c.zip)),
                                     today - c.sold_date)))
    ELSE c @@ [adj_ppsf |-> c.ppsf, appr_pct |-> 0]

\* the record written for a comp (lines 274-289)
OutputRecord(c) ==
    [lat |-> c.lat, lng |-> c.lng, ppsf |-> c.ppsf, adj_ppsf |-> c.adj_ppsf,
     price |-> c.price, sqft |-> c.sqft, lot |-> c.lot, yb |-> c.yb,
     sold |-> c.sold_date, zip |-> c.zip, cluster_id |-> c.cluster_id,
     cluster_size |-> c.cluster_size, appr_pct |-> c.appr_pct, zone |-> c.zone]

listings_build_vars ==
    <<comps, index_vars, listing, p75_calls, newcon_pool, pc, rent_vars,
      btr_vars, subdiv_index_vars, upstream_vars>>

\* redfin_sold.csv as fetch_sold_comps.py left it, before the first run
WriteRow(row) ==
    /\ subdiv_pc = "idle"
    /\ runs = 0
    /\ Len(rows) < MaxRows
    /\ rows' = Append(rows, row)
    /\ UNCHANGED <<zhvi, now, candidates, cluster_id, scan_i, clustered, output,
                   prev_output, runs, subdiv_pc, listings_build_vars>>

\* a run of the script up to the end of Step 1 (lines 41-154), at day today
\* and, for the first run, with the zhvi.json z on disk
StartRun(today, z) ==
    /\ subdiv_pc \in {"idle", "written"}
    /\ runs < MaxRuns
    /\ runs' = runs + 1
    /\ now' = today
    /\ zhvi' = IF runs = 0 THEN z ELSE zhvi
    /\ prev_output' = output
    /\ candidates' = ReadCandidates(rows)
    /\ cluster_id' = 0
    /\ scan_i' = 1
    /\ clustered' = << >>
    /\ IF ReadCandidates(rows) = << >>
       THEN output' = << >> /\ subdiv_pc' = "written"
       ELSE output' = output /\ subdiv_pc' = "step2"
    /\ UNCHANGED <<rows, listings_build_vars>>

\* lines 160-165
SortCandidates ==
    /\ subdiv_pc = "step2"
    /\ candidates' = SortByKey(<< >>, candidates)
    /\ subdiv_pc' = "cluster"
    /\ UNCHANGED <<rows, zhvi, now, cluster_id, scan_i, clustered, output,
                   prev_output, runs, listings_build_vars>>

\* one iteration of "for i, c in enumerate(candidates)" (lines 167-195)
ClusterStep ==
    /\ subdiv_pc = "cluster"
    /\ scan_i <= Len(candidates)
    /\ IF candidates[scan_i].cluster_id # NoneInt
       THEN UNCHANGED <<candidates, cluster_id>>
       ELSE /\ cluster_id' = cluster_id + 1
            /\ candidates' =
                  ScanNeighbors([candidates EXCEPT ![scan_i].cluster_id = cluster_id + 1],
                                scan_i, scan_i + 1, <<scan_i>>, cluster_id + 1)
    /\ scan_i' = scan_i + 1
    /\ UNCHANGED <<rows, zhvi, now, clustered, output, prev_output, runs,
                   subdiv_pc, listings_build_vars>>

\* lines 197-221
FilterClusters ==
    /\ subdiv_pc = "cluster"
    /\ scan_i > Len(candidates)
    /\ clustered' = FilterOrFallback(candidates, KeepClustered(candidates, 1))
    /\ subdiv_pc' = "step3"
    /\ UNCHANGED <<rows, zhvi, now, candidates, cluster_id, scan_i, output,
                   prev_output, runs, listings_build_vars>>

\* Step 3 (lines 223-258)
AdjustAppreciation ==
    /\ subdiv_pc = "step3"
    /\ clustered' = [k \in 1..Len(clustered) |-> Adjusted(clustered[k], zhvi, now)]
    /\ subdiv_pc' = "step4"
    /\ UNCHANGED <<rows, zhvi, now, candidates, cluster_id, scan_i, output,
                   prev_output, runs, listings_build_vars>>

\* Step 4 (lines 268-292)
WriteOutput ==
    /\ subdiv_pc = "step4"
    /\ output' = [k \in 1..Len(clustered) |-> OutputRecord(clustered[k])]
    /\ subdiv_pc' = "written"
    /\ UNCHANGED <<rows, zhvi, now, candidates, cluster_id, scan_i, clustered,
                   prev_output, runs, listings_build_vars>>

----------------------------------------------------------------------------
(* Inputs of build_subdiv_comps.py *)

Row(lat, lng, yb, price, sold, zip) ==
    [lat |-> lat, lng |-> lng, yb |-> yb, lot |-> 2000, sqft |-> 1500,
     price |-> price, type |-> "Townhouse", sold |-> sold, zip |-> zip]

SubdivRows ==
    { Row(34050, -118250, 2021, 750000, 0, ""),
      Row(34051, -118250, 2021, 780000, 90, "90014"),
      Row(34052, -118251, 2021, 810000, 600, "90015"),
      Row(34080, -118300, 2022, 900000, 720, "90026"),
      Row(34081, -118300, 2022, 930000, 1080, "90012"),
      Row(34081, -118301, 2023, 960000, 1440, "90013"),
      Row(34050, -118250, 2010, 750000, 0, "") }

ZhviData ==
    ("90026" :> [appr_12mo |-> 500]) @@ ("90012" :> [appr_12mo |-> -200])
    @@ ("90013" :> [appr_12mo |-> 100]) @@ ("90015" :> [appr_12mo |-> 0])
    @@ ("90014" :> [val_now |-> 900000])

\* zhvi.json present, or missing (zhvi = {})
ZhviFiles == {ZhviData, EmptyDict}

\* the days on which the script is run
RunDays == {1440, 1800}

WriteSubdivRow == \E row \in SubdivRows : WriteRow(row)

RunSubdiv == \E today \in RunDays, z \in ZhviFiles : today >= now /\ StartRun(today, z)

NextSubdiv ==
    \/ WriteSubdivRow
    \/ RunSubdiv
    \/ SortCandidates
    \/ ClusterStep
    \/ FilterClusters
    \/ AdjustAppreciation
    \/ WriteOutput

SpecSubdiv == Init /\ [][NextSubdiv]_vars

----------------------------------------------------------------------------
(* C11 *)

\* the cluster detection loop has finished for the candidates at hand
ClusteringDone ==
    /\ candidates # << >>
    /\ subdiv_pc \in {"step3", "step4", "written"}

\* candidate s started its cluster
IsSeed(s) == \A e \in 1..(s - 1) : candidates[e].cluster_id # candidates[s].cluster_id

WindowDays == CLUSTER_MAX_MONTHS * 30

\* C11: a later candidate k that is still unclustered when the scan of seed s
\* reaches it, lies within the proximity threshold, and was sold within 540
\* days of ANY member m the cluster has by then, joins the cluster of s.
JoinsWithinWindowOfAnyMember ==
    ClusteringDone =>
        \A s, m, k \in 1..Len(candidates) :
            ( /\ IsSeed(s)
              /\ candidates[m].cluster_id = candidates[s].cluster_id
              /\ s < k /\ m < k
              /\ candidates[k].cluster_id >= candidates[s].cluster_id
              /\ Proximate(candidates[s], candidates[k])
              /\ Abs(candidates[m].sold_date - candidates[k].sold_date) <= WindowDays )
            => candidates[k].cluster_id = candidates[s].cluster_id

\* what the loop does: such a candidate joins exactly when it was sold within
\* 540 days of the seed
JoinsWithinWindowOfSeed ==
    ClusteringDone =>
        \A s, k \in 1..Len(candidates) :
            ( /\ IsSeed(s)
              /\ s < k
              /\ candidates[k].cluster_id >= candidates[s].cluster_id
              /\ Proximate(candidates[s], candidates[k]) )
            => ( candidates[k].cluster_id = candidates[s].cluster_id
                 <=> Abs(candidates[s].sold_date - candidates[k].sold_date) <= WindowDays )

----------------------------------------------------------------------------
(* C12 *)

Written == subdiv_pc = "written"

\* the zip of o has a non-zero appreciation entry and o was sold before now
Compounds(o) ==
    /\ o.zip \in DOMAIN zhvi
    /\ "appr_12mo" \in DOMAIN zhvi[o.zip]
    /\ zhvi[o.zip].appr_12mo # 0
    /\ now - o.sold > 0

\* (1 + annual_rate) ^ (months / 12) of o, as a fraction
Compounded(o) == RawFactor(OnePlusRate(zhvi[o.zip].appr_12mo), now - o.sold)

\* C12: every comp written has appr_pct within [-30, +30] and adj_ppsf within
\* rounding of [0.70, 1.30] * ppsf; a compounded factor above 1.30 gives
\* exactly +30% and round(1.30 * ppsf), one below 0.70 gives -30% and
\* round(0.70 * ppsf); a comp whose zip has no appreciation entry keeps
\* adj_ppsf = ppsf with appr_pct = 0.
AppreciationClamped ==
    Written =>
        \A i \in 1..Len(output) :
            /\ output[i].appr_pct \in -300..300
            /\ 10 * output[i].adj_ppsf >= 7 * output[i].ppsf - 5
            /\ 10 * output[i].adj_ppsf <= 13 * output[i].ppsf + 5
            /\ (output[i].zip \notin DOMAIN zhvi
                \/ "appr_12mo" \notin DOMAIN zhvi[output[i].zip]) =>
                  /\ output[i].adj_ppsf = output[i].ppsf
                  /\ output[i].appr_pct = 0
            /\ (Compounds(output[i])
                /\ 10 * Compounded(output[i])[1] > 13 * Compounded(output[i])[2]) =>
                  /\ output[i].appr_pct = 300
                  /\ output[i].adj_ppsf = PyRound(13 * output[i].ppsf, 10)
            /\ (Compounds(output[i])
                /\ 10 * Compounded(output[i])[1] < 7 * Compounded(output[i])[2]) =>
                  /\ output[i].appr_pct = -300
                  /\ output[i].adj_ppsf = PyRound(7 * output[i].ppsf, 10)

\* a $600/SF comp sold 720 days (24 months) ago in a zip appreciating 50% a
\* year: 1.5^2 = 2.25 is capped, the comp is written at $780/SF, +30%
AppreciationClampedWitness ==
    /\ Written
    /\ \E i \in 1..Len(output) :
          /\ output[i].zip = "90026"
          /\ zhvi # EmptyDict
          /\ zhvi["90026"].appr_12mo = 500
          /\ now - output[i].sold = 720
          /\ output[i].ppsf = 600
          /\ output[i].adj_ppsf = 780
          /\ output[i].appr_pct = 300

----------------------------------------------------------------------------
(* C13 *)

\* the candidates that share the cluster id cid
ClusterOf(cid) == {k \in 1..Len(candidates) : candidates[k].cluster_id = cid}

\* the candidates in clusters of 2 or more
MultiMember == {k \in 1..Len(candidates) : Cardinality(ClusterOf(candidates[k].cluster_id)) >= 2}

\* C13: the output holds exactly the candidates of clusters of 2 or more, each
\* tagged with the number of candidates sharing its cluster id; when no such
\* cluster exists it holds every candidate with cluster_size = 1; it is empty
\* only when no row passed the candidate filters.
OutputIsClusteredOrAll ==
    (Written /\ runs >= 1) =>
        /\ MultiMember # {} =>
              /\ Len(output) = Cardinality(MultiMember)
              /\ \A i \in 1..Len(output) :
                    /\ output[i].cluster_size >= 2
                    /\ output[i].cluster_size =
                          Cardinality(ClusterOf(output[i].cluster_id))
                    /\ output[i].cluster_size =
                          Cardinality({j \in 1..Len(output) :
                                          output[j].cluster_id = output[i].cluster_id})
        /\ MultiMember = {} =>
              /\ Len(output) = Len(candidates)
              /\ \A i \in 1..Len(output) :
                    /\ output[i].cluster_size = 1
                    /\ Cardinality(ClusterOf(output[i].cluster_id)) = 1
        /\ output = << >> <=> \A i \in 1..Len(rows) : ~IsCandidate(rows[i])

\* a cluster of two is written and a single sale is discarded
OutputIsClusteredOrAllWitness ==
    /\ Written /\ runs >= 1
    /\ Len(candidates) = 3
    /\ Len(output) = 2
    /\ \A i \in 1..Len(output) : output[i].cluster_size = 2

\* no cluster of two exists and every candidate is written as a singleton
OutputAllSingletons ==
    /\ Written /\ runs >= 1
    /\ Len(candidates) >= 2
    /\ Len(output) = Len(candidates)
    /\ \A i \in 1..Len(output) : output[i].cluster_size = 1

----------------------------------------------------------------------------
(* listings_build.py, Steps 4c and 4d: rent stamping *)

MaxRentals == 4

SFR_TH_TYPES == {"Single Family Residential", "Townhouse", "Condo/Co-op",
                 "Multi-Family (2-4 Unit)"}

\* the rows Step 4d-a does not index (line 1017)
RentalSkipped(c) == c.rent < 500 \/ c.rent > 20000 \/ c.lat = 0 \/ c.lng = 0

\* the tuple appended to the grid cell (line 1028)
RentalEntry(c) == [lat |-> c.lat, lng |-> c.lng, rent |-> c.rent,
                   beds |-> c.beds, sqft |-> c.sqft, ptype |-> c.ptype]

\* the filters without the minimum size
MatchesCriteriaAnySize(e, min_beds, min_sqft, types_filter) ==
    /\ ~(e.beds < min_beds)
    /\ ~(types_filter # {} /\ e.ptype \notin types_filter)

\* the filters of collect_comps after the box test (lines 1096-1101);
\* types_filter None is the empty set
MatchesCriteria(e, min_beds, min_sqft, types_filter) ==
    /\ ~(e.beds < min_beds)
    /\ ~(min_sqft > 0 /\ e.sqft > 0 /\ e.sqft < min_sqft)
    /\ ~(types_filter # {} /\ e.ptype \notin types_filter)

\* collect_comps (lines 1087-1103)
collect_comps(lat, lng, radius, min_beds, min_sqft, types_filter) ==
    SelectSeq(collect_from_grid(rental_grid, lat, lng, radius),
              LAMBDA e : MatchesCriteria(e, min_beds, min_sqft, types_filter))

Rents(matches) == [i \in 1..Len(matches) |-> matches[i].rent]

BedsList(matches) == [i \in 1..Len(matches) |-> matches[i].beds]

\* median_val (lines 1083-1085)
median_val(vals) == SortAsc(vals)[Len(vals) \div 2 + 1]

\* the return of tiers 1 and 2 (lines 1109-1112, 1117-1119)
SpatialRent(matches, method, miles) ==
    [est_rent |-> p75(Rents(matches)), method |-> method,
     comp_count |-> Len(matches), radius_mi |-> miles,
     median_beds |-> median_val(BedsList(matches)),
     calls |-> <<P75Call(Rents(matches))>>]

\* the return of tier 3 (lines 1124-1131)
AdjustedRent(matches, rent_p75, med_beds) ==
    [est_rent |-> IF med_beds < 3 THEN PyRound(rent_p75 * 6, 5) ELSE rent_p75,
     method |-> "rental-adj", comp_count |-> Len(matches),
     radius_mi |-> Miles(15), median_beds |-> med_beds,
     calls |-> <<P75Call(Rents(matches))>>]

NonSpatialRent(est_rent, method) ==
    [est_rent |-> est_rent, method |-> method, comp_count |-> 0,
     radius_mi |-> 0, median_beds |-> 0, calls |-> << >>]

\* the zip-level index tried before the adjusted rental comps
RentTiersZoriBeforeAdj(half, one, wide, adj, zipcode, safmr_3br) ==
    IF Len(half) >= 3 THEN SpatialRent(half, "rental-comp", Miles(7))
    ELSE IF Len(one) >= 3 THEN SpatialRent(one, "rental-comp", Miles(15))
    ELSE IF Len(wide) >= 3 THEN SpatialRent(wide, "rental-comp-wide", Miles(29))
    ELSE IF zipcode \in DOMAIN zori_by_zip
    THEN NonSpatialRent(PyRound(zori_by_zip[zipcode] * 7, 5), "zori")
    ELSE IF Len(adj) >= 3
    THEN AdjustedRent(adj, p75(Rents(adj)), median_val(BedsList(adj)))
    ELSE IF safmr_3br > 0 THEN NonSpatialRent(PyRound(safmr_3br * 5, 4), "safmr")
    ELSE NonSpatialRent(0, "none")

\* the tiers of find_rental_estimate in order (lines 1105-1143), given the
\* matches collected at 0.5 mi, 1 mi, 2 mi and, for tier 3, at 1 mi
RentTiers(half, one, wide, adj, zipcode, safmr_3br) ==
    IF Len(half) >= 3 THEN SpatialRent(half, "rental-comp", Miles(7))
    ELSE IF Len(one) >= 3 THEN SpatialRent(one, "rental-comp", Miles(15))
    ELSE IF Len(wide) >= 3 THEN SpatialRent(wide, "rental-comp-wide", Miles(29))
    ELSE IF Len(adj) >= 3
    THEN AdjustedRent(adj, p75(Rents(adj)), median_val(BedsList(adj)))
    ELSE IF zipcode \in DOMAIN zori_by_zip
    THEN NonSpatialRent(PyRound(zori_by_zip[zipcode] * 7, 5), "zori")
    ELSE IF safmr_3br > 0 THEN NonSpatialRent(PyRound(safmr_3br * 5, 4), "safmr")
    ELSE NonSpatialRent(0, "none")

find_rental_estimate(lat, lng, zipcode, safmr_3br) ==
    RentTiers(collect_comps(lat, lng, 7, 3, 1200, SFR_TH_TYPES),
              collect_comps(lat, lng, 15, 3, 1200, SFR_TH_TYPES),
              collect_comps(lat, lng, 29, 3, 1200, SFR_TH_TYPES),
              collect_comps(lat, lng, 15, 2, 900, {}),
              zipcode, safmr_3br)

\* a Python value that is neither None nor 0
Truthy(d, k) == k \in DOMAIN d /\ d[k] # NoneInt /\ d[k] # 0

\* l.get("fmr3br") or 0
FmrOrZero(l) == IF Truthy(l, "fmr3br") THEN l.fmr3br ELSE 0

not_rent_vars ==
    <<comps, index_vars, newcon_pool, pc, subdiv_vars, btr_vars,
      subdiv_index_vars, upstream_vars>>

\* Step 4c for one listing (lines 963-999): rents.json is file.data when
\* file.exists
StampFmr(l, file) ==
    /\ rent_pc = "4c"
    /\ listing' =
          IF file.exists /\ l.zip \in DOMAIN file.data
          THEN IF DictGet(file.data[l.zip], "fmr3br", NoneInt) \notin {NoneInt, 0}
               THEN l @@ [fmr3br |-> file.data[l.zip].fmr3br,
                          fmr4br |-> DictGet(file.data[l.zip], "fmr4br", NoneInt),
                          estRentMonth |-> PyRound(file.data[l.zip].fmr3br * 5, 4)]
               ELSE l @@ [fmr3br |-> DictGet(file.data[l.zip], "fmr3br", NoneInt),
                          fmr4br |-> DictGet(file.data[l.zip], "fmr4br", NoneInt)]
          ELSE l @@ [fmr3br |-> NoneInt, fmr4br |-> NoneInt,
                     estRentMonth |-> NoneInt]
    /\ rent_pc' = "4d-a"
    /\ UNCHANGED <<rental_comps, rental_grid, rental_comp_count, zori_by_zip,
                   rent_result, p75_calls, not_rent_vars>>

\* Step 4d-a for one row of rental_comps.csv (lines 1012-1032)
LoadRentalComp(c) ==
    /\ rent_pc = "4d-a"
    /\ BagCardinality(rental_comps) < MaxRentals
    /\ rental_comps' = rental_comps (+) SetToBag({c})
    /\ IF RentalSkipped(c)
       THEN UNCHANGED <<rental_grid, rental_comp_count>>
       ELSE /\ rental_grid' = SetDefaultAppend(rental_grid, CellOf(c.lat, c.lng),
                                               RentalEntry(c))
            /\ rental_comp_count' = rental_comp_count + 1
    /\ UNCHANGED <<zori_by_zip, rent_result, rent_pc, listing, p75_calls,
                   not_rent_vars>>

\* Step 4d-b (lines 1038-1066): zori_data.csv yields the index z
LoadZori(z) ==
    /\ rent_pc = "4d-a"
    /\ zori_by_zip' = z
    /\ rent_pc' = "4d-d"
    /\ UNCHANGED <<rental_comps, rental_grid, rental_comp_count, rent_result,
                   listing, p75_calls, not_rent_vars>>

\* lines 1157-1162 for the returned r
StampedRent(l, r) ==
    [x \in DOMAIN l \cup {"rentMethod", "rentCompCount", "rentCompRadius",
                          "rentCompMedianBeds"}
                    \cup (IF r.est_rent > 0 THEN {"estRentMonth"} ELSE {}) |->
        CASE x = "estRentMonth" /\ r.est_rent > 0 -> r.est_rent
          [] x = "rentMethod" -> r.method
          [] x = "rentCompCount" -> r.comp_count
          [] x = "rentCompRadius" -> r.radius_mi
          [] x = "rentCompMedianBeds" -> r.median_beds
          [] OTHER -> l[x]]

\* Step 4d-d for the listing (lines 1145-1198)
StampRent ==
    /\ rent_pc = "4d-d"
    /\ IF rental_comp_count > 0 \/ zori_by_zip # EmptyDict
       THEN \E r \in {find_rental_estimate(listing.lat, listing.lng, listing.zip,
                                           FmrOrZero(listing))} :
                /\ rent_result' = r
                /\ p75_calls' = r.calls
                /\ listing' = StampedRent(listing, r)
       ELSE /\ rent_result' = EmptyDict
            /\ p75_calls' = << >>
            /\ listing' = listing @@
                  [rentMethod |-> IF Truthy(listing, "estRentMonth")
                                  THEN "safmr" ELSE "none",
                   rentCompCount |-> 0, rentCompRadius |-> 0,
                   rentCompMedianBeds |-> 0]
    /\ rent_pc' = "done"
    /\ UNCHANGED <<rental_comps, rental_grid, rental_comp_count, zori_by_zip,
                   not_rent_vars>>

----------------------------------------------------------------------------
(* Inputs of the rent stamping *)

Rental(lat, lng, rent, beds, sqft, ptype) ==
    [lat |-> lat, lng |-> lng, rent |-> rent, beds |-> beds, sqft |-> sqft,
     ptype |-> ptype]

RentalRows ==
    { Rental(34053, -118254, 3000, 3, 1500, "Townhouse"),
      Rental(34062, -118250, 3500, 3, 1500, "Single Family Residential"),
      Rental(34075, -118250, 4000, 4, 1600, "Townhouse"),
      Rental(34053, -118254, 2000, 2, 1000, "Apartment"),
      Rental(34060, -118255, 2400, 2, 0, "Apartment"),
      Rental(34053, -118254, 400, 3, 1500, "Townhouse"),
      Rental(34053, -118254, 3200, 3, 1000, "Townhouse") }

RentListings == [lat : {34050}, lng : {-118250}, zip : {"90026", "90099"}]

\* rents.json: missing, or with the zip's FMRs, or with an entry without fmr3br
RentFiles ==
    { [exists |-> FALSE, data |-> EmptyDict],
      [exists |-> TRUE, data |-> ("90026" :> [fmr3br |-> 2002, fmr4br |-> 2500])],
      [exists |-> TRUE, data |-> ("90026" :> [fmr4br |-> 2500])] }

\* zori_by_zip as read from zori_data.csv
ZoriIndexes ==
    { EmptyDict, ("90026" :> 2000), ("90026" :> 0), ("90027" :> 1800) }

StampFmrListing == \E l \in RentListings, file \in RentFiles : StampFmr(l, file)

LoadRentalRow == \E c \in RentalRows : LoadRentalComp(c)

LoadZoriIndex == \E z \in ZoriIndexes : LoadZori(z)

NextRent == StampFmrListing \/ LoadRentalRow \/ LoadZoriIndex \/ StampRent

SpecRent == Init /\ [][NextRent]_vars

----------------------------------------------------------------------------
(* C14 *)

\* the number of rows of rental_comps.csv that pass Test
NumRentals(Test(_)) ==
    SumCounts(rental_comps, {c \in DOMAIN rental_comps : Test(c)})

\* a row Step 4d-a keeps
RentUsable(c) == c.rent >= 500 /\ c.rent <= 20000 /\ c.lat # 0 /\ c.lng # 0

\* a 3+ bedroom, 1200+ SF (when the size is known) house-type rental within
\* the given half-width of the listing
FamilyRental(c, radius) ==
    /\ RentUsable(c) /\ Near(c, radius)
    /\ c.beds >= 3
    /\ (c.sqft = 0 \/ c.sqft >= 1200)
    /\ c.ptype \in {"Single Family Residential", "Townhouse", "Condo/Co-op",
                    "Multi-Family (2-4 Unit)"}

\* a 2+ bedroom, 900+ SF (when the size is known) rental of any type within
\* 1 mile
AnyRental(c) ==
    /\ RentUsable(c) /\ Near(c, 15)
    /\ c.beds >= 2
    /\ (c.sqft = 0 \/ c.sqft >= 900)

NumFamily(radius) == NumRentals(LAMBDA c : FamilyRental(c, radius))

ListingFmr ==
    IF "fmr3br" \in DOMAIN listing /\ listing.fmr3br > 0 THEN listing.fmr3br ELSE 0

\* the first tier whose condition holds
FirstRentTier ==
    IF NumFamily(7) >= 3 \/ NumFamily(15) >= 3 THEN "rental-comp"
    ELSE IF NumFamily(29) >= 3 THEN "rental-comp-wide"
    ELSE IF NumRentals(AnyRental) >= 3 THEN "rental-adj"
    ELSE IF listing.zip \in DOMAIN zori_by_zip THEN "zori"
    ELSE IF ListingFmr > 0 THEN "safmr"
    ELSE "none"

RentEstimated == rent_pc = "done" /\ rent_result # EmptyDict

\* C14: find_rental_estimate returns the first tier, in the order rental-comp
\* (0.5 mi, then 1 mi), rental-comp-wide (2 mi), rental-adj, zori, safmr,
\* whose condition holds, with that tier's radius, comp count and value, and
\* 'none' with 0 only when every tier fails; the safmr value is
\* round(1.25 * FMR).
RentTierOrder ==
    RentEstimated =>
        /\ rent_result.method = FirstRentTier
        /\ rent_result.method = "rental-comp" =>
              /\ rent_result.radius_mi = IF NumFamily(7) >= 3 THEN 48 ELSE 103
              /\ rent_result.comp_count =
                    IF NumFamily(7) >= 3 THEN NumFamily(7) ELSE NumFamily(15)
              /\ rent_result.est_rent = rent_result.calls[1].ret
        /\ rent_result.method = "rental-comp-wide" =>
              /\ rent_result.radius_mi = 200
              /\ rent_result.comp_count = NumFamily(29)
              /\ rent_result.est_rent = rent_result.calls[1].ret
        /\ rent_result.method = "rental-adj" =>
              /\ rent_result.radius_mi = 103
              /\ rent_result.comp_count = NumRentals(AnyRental)
        /\ rent_result.method \in {"rental-comp", "rental-comp-wide", "rental-adj"} =>
              /\ rent_result.comp_count >= 3
              /\ Len(rent_result.calls[1].vals) = rent_result.comp_count
        /\ rent_result.method = "zori" =>
              rent_result.est_rent = PyRound(7 * zori_by_zip[listing.zip], 5)
        /\ rent_result.method = "safmr" =>
              rent_result.est_rent = PyRound(5 * ListingFmr, 4)
        /\ rent_result.method = "none" => rent_result.est_rent = 0

\* no rental comps, no rent-index entry for the zip, FMR 2002: 'safmr' with
\* round(1.25 * 2002) = 2502
RentTierOrderWitness ==
    /\ RentEstimated
    /\ rental_comps = EmptyBag
    /\ listing.zip \notin DOMAIN zori_by_zip
    /\ listing.fmr3br = 2002
    /\ rent_result.method = "safmr"
    /\ rent_result.est_rent = 2502

----------------------------------------------------------------------------
(* C15 *)

RentStamped == rent_pc = "done"

\* the stored estRentMonth, NoneInt when null or absent
StoredRent ==
    IF "estRentMonth" \in DOMAIN listing THEN listing.estRentMonth ELSE NoneInt

\* C15: after rent stamping, rentMethod is 'none' exactly when the listing has
\* no rent estimate, and otherwise the stored estRentMonth is the value of the
\* tier rentMethod names.
RentMethodNamesEstimate ==
    RentStamped =>
        /\ listing.rentMethod = "none" <=> StoredRent = NoneInt
        /\ listing.rentMethod = "safmr" => StoredRent = PyRound(5 * ListingFmr, 4)
        /\ listing.rentMethod = "zori" =>
              StoredRent = PyRound(7 * zori_by_zip[listing.zip], 5)
        /\ listing.rentMethod \in {"rental-comp", "rental-comp-wide", "rental-adj"} =>
              StoredRent = rent_result.est_rent

\* the same with every rent of the ZORI index positive
RentMethodNamesEstimateIfZoriPositive ==
    (\A z \in DOMAIN zori_by_zip : zori_by_zip[z] > 0) => RentMethodNamesEstimate

----------------------------------------------------------------------------
(***************************************************************************)
(* add_btr_layer.py: the build-to-rent layer added to the listings of      *)
(* listings.js.  Rates are whole percents, yields are in units of 0.0001   *)
(* (the four decimals round(yoc, 4) keeps), a rent or an income that is    *)
(* not yet rounded is an exact fraction <<numerator, denominator>>.        *)
(***************************************************************************)
BTR_CONFIG ==
    [MIN_SALE_PPSF |-> 650, TARGET_YOC |-> 400, TARGET_UNIT_SQFT |-> 1750,
     UNITS_PER_PROJECT |-> 10, CONSTRUCTION_PPSF |-> 350, SOFT_COST_MULT |-> 15,
     VACANCY_RATE |-> 5, OPEX_RATIO |-> 30, CAP_RATE |-> 5,
     LAT_MIN |-> 33950, LAT_MAX |-> 34250, LNG_MIN |-> -118650,
     LNG_MAX |-> -118050]

\* no market defines btr_premium_factors: every zip gets the default entry
NEWCON_PREMIUM == [_default |-> [factor |-> 125, confidence |-> "default"]]

get_premium(zip_code) == NEWCON_PREMIUM._default

\* n / d in lowest terms
Frac(n, d) == <<n \div Gcd(n, d), d \div Gcd(n, d)>>

\* rent is a fraction, the rates are percents
calc_scenario_noi(rent, units, vacancy_rate, opex_ratio) ==
    LET gross == Frac(rent[1] * units * 12, rent[2])
        egi   == Frac(gross[1] * (100 - vacancy_rate), gross[2] * 100)
    IN  Frac(egi[1] * (100 - opex_ratio), egi[2] * 100)

\* one entry of scenarios: rent rounded, noi rounded, yoc rounded to 0.0001
Scenario(rent, noi, total_project_cost) ==
    LET yoc == Frac(noi[1], noi[2] * total_project_cost)
    IN  [rent |-> PyRound(rent[1], rent[2]),
         noi  |-> PyRound(noi[1], noi[2]),
         yoc  |-> IF total_project_cost > 0 THEN PyRound(yoc[1] * 10000, yoc[2])
                  ELSE 0]

ScenarioOf(rent, total_project_cost, units) ==
    Scenario(rent,
             calc_scenario_noi(rent, units, BTR_CONFIG.VACANCY_RATE,
                               BTR_CONFIG.OPEX_RATIO),
             total_project_cost)

calc_btr_scenarios(zori_rent, zip_code, total_project_cost, units) ==
    LET premium_factor == get_premium(zip_code).factor
    IN  [conservative |-> ScenarioOf(Frac(zori_rent, 1), total_project_cost, units),
         base         |-> ScenarioOf(Frac(zori_rent * premium_factor, 100),
                                     total_project_cost, units),
         aggressive   |-> ScenarioOf(Frac(zori_rent * premium_factor * 11, 1000),
                                     total_project_cost, units)]

calc_neighborhood_scenarios(base_rent, median_rent, total_project_cost, units) ==
    [conservative |-> ScenarioOf(Frac(base_rent, 1), total_project_cost, units),
     base         |-> ScenarioOf(Frac(median_rent, 1), total_project_cost, units),
     aggressive   |-> ScenarioOf(Frac(median_rent * 11, 10), total_project_cost, units)]

\* l.get(k) or 0
GetOrZero(l, k) == IF Truthy(l, k) THEN l[k] ELSE 0

\* l.get('hoodPpsf') or l.get('ppsf') or 0 (line 178)
HoodPpsf(l) ==
    IF Truthy(l, "hoodPpsf") THEN l.hoodPpsf ELSE GetOrZero(l, "ppsf")

\* the geographic and buildability filters and Check 1 (lines 187-206)
BtrFilteredOut(l, hood) ==
    \/ ~ (/\ BTR_CONFIG.LAT_MIN <= l.lat /\ l.lat <= BTR_CONFIG.LAT_MAX
          /\ BTR_CONFIG.LNG_MIN <= l.lng /\ l.lng <= BTR_CONFIG.LNG_MAX)
    \/ GetOrZero(l, "lotSf") < 12000
    \/ (l.slope # NoneInt /\ l.slope > 10)
    \/ l.fireZone
    \/ hood >= BTR_CONFIG.MIN_SALE_PPSF

\* line 209
LandCost(l, hood) ==
    IF GetOrZero(l, "price") > 0 THEN l.price
    ELSE IF GetOrZero(l, "lotSf") > 0 THEN hood * l.lotSf ELSE 0

\* lines 210-212
TotalProjectCost(land) ==
    LET construction_cost == BTR_CONFIG.TARGET_UNIT_SQFT
                               * BTR_CONFIG.UNITS_PER_PROJECT
                               * BTR_CONFIG.CONSTRUCTION_PPSF
        soft_costs == (construction_cost * BTR_CONFIG.SOFT_COST_MULT) \div 100
    IN  land + construction_cost + soft_costs

\* Check 2 (lines 215-242): the scenarios and where the rents came from,
\* rent_source "None" when there is no rent data
RentScenarios(l, total) ==
    IF l.city \in DOMAIN neighborhoods
    THEN LET nh == neighborhoods[l.city]
             base_rent == IF "base_rent" \in DOMAIN nh THEN nh.base_rent
                          ELSE PyRound(nh.median_rent * 100, 115)
         IN  [scenarios |-> calc_neighborhood_scenarios(base_rent, nh.median_rent,
                                                        total, 10),
              rent_source |-> "manual", premium_factor |-> NoneInt,
              confidence |-> "manual",
              zori_base |-> IF l.zip \in DOMAIN btr_zori_by_zip
                            THEN btr_zori_by_zip[l.zip] ELSE NoneInt]
    ELSE IF l.zip \in DOMAIN btr_zori_by_zip
    THEN [scenarios |-> calc_btr_scenarios(btr_zori_by_zip[l.zip], l.zip, total, 10),
          rent_source |-> "zori", premium_factor |-> get_premium(l.zip).factor,
          confidence |-> get_premium(l.zip).confidence,
          zori_base |-> btr_zori_by_zip[l.zip]]
    ELSE [scenarios |-> EmptyDict, rent_source |-> "None",
          premium_factor |-> NoneInt, confidence |-> "None",
          zori_base |-> NoneInt]

\* the fields lines 250-277 set on an eligible listing
BtrFields(l, r, hood) ==
    LET sc == r.scenarios
    IN  [btr |-> TRUE,
         rentConservative |-> sc.conservative.rent, rentBase |-> sc.base.rent,
         rentAggressive |-> sc.aggressive.rent,
         noiConservative |-> sc.conservative.noi, noiBase |-> sc.base.noi,
         noiAggressive |-> sc.aggressive.noi,
         yocConservative |-> sc.conservative.yoc, yocBase |-> sc.base.yoc,
         yocAggressive |-> sc.aggressive.yoc,
         zoriBase |-> r.zori_base, premiumFactor |-> r.premium_factor,
         confidence |-> r.confidence,
         safmr3br |-> IF l.zip \in DOMAIN safmr_by_zip THEN safmr_by_zip[l.zip]
                      ELSE NoneInt,
         estRent |-> sc.base.rent, yoc |-> sc.base.yoc, noi |-> sc.base.noi,
         stabilizedValue |-> (sc.base.noi * 100) \div BTR_CONFIG.CAP_RATE,
         salePpsfGap |-> hood - BTR_CONFIG.MIN_SALE_PPSF,
         rentSource |-> r.rent_source]

\* the eligibility test of lines 248-249
Eligible(r) ==
    /\ r.rent_source # "None"
    /\ r.scenarios.base.yoc >= BTR_CONFIG.TARGET_YOC

not_btr_vars ==
    <<comps, index_vars, listing, p75_calls, newcon_pool, pc, subdiv_vars,
      rent_vars, subdiv_index_vars, upstream_vars>>

\* Step 1 (lines 112-150): the three rent data sources
LoadRentSources(nh, zori, safmr) ==
    /\ btr_pc = "step1"
    /\ neighborhoods' = nh
    /\ btr_zori_by_zip' = zori
    /\ safmr_by_zip' = safmr
    /\ btr_pc' = "step3"
    /\ UNCHANGED <<btr_listing, hood_ppsf, land_cost, not_btr_vars>>

\* one iteration of the loop of Step 3 (lines 174-284) on a listing of
\* listings.js; the counters it keeps are only printed
ScoreListing(l) ==
    /\ btr_pc = "step3"
    /\ \E hood \in {HoodPpsf(l)} :
         /\ hood_ppsf' = hood
         /\ IF BtrFilteredOut(l, hood)
            THEN /\ btr_listing' = [btr |-> FALSE] @@ l
                 /\ land_cost' = NoneInt
            ELSE \E land \in {LandCost(l, hood)} :
                 \E r \in {RentScenarios(l, TotalProjectCost(land))} :
                   /\ land_cost' = land
                   /\ btr_listing' = IF Eligible(r) THEN BtrFields(l, r, hood) @@ l
                                     ELSE [btr |-> FALSE] @@ l
    /\ btr_pc' = "done"
    /\ UNCHANGED <<neighborhoods, btr_zori_by_zip, safmr_by_zip, not_btr_vars>>

BtrListing(hood, ppsf, lot, price, slope, fire, city, lat) ==
    [lat |-> lat, lng |-> -118450, city |-> city, zip |-> "91401",
     hoodPpsf |-> hood, ppsf |-> ppsf, lotSf |-> lot, price |-> price,
     slope |-> slope, fireZone |-> fire]

BtrListings ==
    { BtrListing(hood, ppsf, lot, price, slope, fire, city, lat) :
        hood \in {NoneInt, 500, 700}, ppsf \in {0, 400, 700},
        lot \in {NoneInt, 15000}, price \in {0, 1000000},
        slope \in {NoneInt, 15}, fire \in BOOLEAN,
        city \in {"Van Nuys", "Burbank"}, lat \in {34180, 33000} }

NeighborhoodFiles ==
    { EmptyDict, ("Van Nuys" :> [median_rent |-> 4600, base_rent |-> 4000]),
      ("Van Nuys" :> [median_rent |-> 2300]) }

BtrZoriIndexes == { EmptyDict, ("91401" :> 4000), ("91401" :> 2000) }

SafmrIndexes == { EmptyDict, ("91401" :> 3100) }

LoadBtrRentSources ==
    \E nh \in NeighborhoodFiles, zori \in BtrZoriIndexes, safmr \in SafmrIndexes :
        LoadRentSources(nh, zori, safmr)

ScoreBtrListing == \E l \in BtrListings : ScoreListing(l)

NextBtr == LoadBtrRentSources \/ ScoreBtrListing

SpecBtr == Init /\ [][NextBtr]_vars

\* C16: a listing whose neighbourhood $/SF estimate is null is excluded: it is
\* never marked btr = True, and neither its own $/SF nor 0 stands in for the
\* estimate in the for-sale threshold test or in the land cost
NullEstimateExcluded ==
    (btr_pc = "done" /\ btr_listing.hoodPpsf = NoneInt)
        => /\ ~ btr_listing.btr
           /\ land_cost = NoneInt

\* a listing without an estimate, without a $/SF of its own and without a
\* price is marked btr = True on a land cost of 0
NullEstimateMarkedBtr ==
    /\ btr_pc = "done"
    /\ btr_listing.hoodPpsf = NoneInt
    /\ btr_listing.ppsf = 0
    /\ btr_listing.price = 0
    /\ btr_listing.btr
    /\ land_cost = 0
    /\ btr_listing.yocBase = 566

\* the same for the listings that do carry an estimate: the threshold test
\* and the land cost use that estimate
EstimateUsedWhenPresent ==
    (btr_pc = "done" /\ btr_listing.hoodPpsf # NoneInt)
        => /\ hood_ppsf = btr_listing.hoodPpsf
           /\ (btr_listing.btr => hood_ppsf < BTR_CONFIG.MIN_SALE_PPSF)

----------------------------------------------------------------------------
\* C17: a second run of build_subdiv_comps.py on the same redfin_sold.csv and
\* zhvi.json writes the records the first run wrote, whenever it executes
RerunWritesSameOutput ==
    (subdiv_pc = "written" /\ runs >= 2) => output = prev_output

\* the same when zhvi.json has no entry, so that no comp is adjusted
RerunWritesSameOutputWithoutZhvi ==
    (subdiv_pc = "written" /\ runs >= 2 /\ zhvi = EmptyDict)
        => output = prev_output

\* a comp sold on day 1440 in a zip appreciating 10% a year: written as sold
\* by the run of day 1440, written 10% higher by the run of day 1800
RerunAdjustsFurther ==
    /\ subdiv_pc = "written"
    /\ runs = 2
    /\ now = 1800
    /\ Len(output) = 1
    /\ Len(prev_output) = 1
    /\ output[1].sold = 1440
    /\ prev_output[1].adj_ppsf = prev_output[1].ppsf
    /\ output[1].ppsf = prev_output[1].ppsf
    /\ output[1].adj_ppsf = PyRound(output[1].ppsf * 11, 10)

----------------------------------------------------------------------------
(***************************************************************************)
(* listings_build.py, Step 4b2: the index of the subdivision comps of      *)
(* subdiv_comps.json, and the five grid indexes side by side.              *)
(***************************************************************************)
MaxSubdivComps == 3

SUBDIV_GRID_SIZE == GRID_SIZE
SUBDIV_RADII == <<7, 15, 29>>
RENTAL_GRID_SIZE == GRID_SIZE

\* the rental ladder of find_rental_estimate: 0.5, 1 and 2 miles
RENTAL_RADII == <<7, 15, 29>>

\* the records the index loop skips (line 879)
SubdivSkipped(sc) == sc.adj_ppsf <= 0 \/ sc.lat = 0 \/ sc.lng = 0

\* one iteration of "for sc in subdiv_comps_raw" (lines 874-892)
IndexSubdivComp(sc) ==
    /\ BagCardinality(subdiv_comps_raw) < MaxSubdivComps
    /\ subdiv_comps_raw' = subdiv_comps_raw (+) SetToBag({sc})
    /\ IF SubdivSkipped(sc)
       THEN UNCHANGED <<subdiv_grid, subdiv_zone_grid, subdiv_count>>
       ELSE LET cell == <<sc.lat \div SUBDIV_GRID_SIZE,
                          sc.lng \div SUBDIV_GRID_SIZE>>
            IN  /\ subdiv_grid' = SetDefaultAppend(subdiv_grid, cell, sc)
                /\ subdiv_zone_grid' =
                       IF sc.zone # ""
                       THEN ZoneGridAdd(subdiv_zone_grid, sc.zone, cell, sc)
                       ELSE subdiv_zone_grid
                /\ subdiv_count' = subdiv_count + 1
    /\ UNCHANGED <<comps, index_vars, listing, p75_calls, newcon_pool, pc,
                   subdiv_vars, rent_vars, btr_vars, upstream_vars>>

\* collect of find_subdiv_exit_ppsf (lines 905-913)
collect(grid, lat, lng, radius) == collect_from_grid(grid, lat, lng, radius)

GridComps ==
    { Comp(34062, -118256, "R2", 500, 1000000, 2000, "90026", 2022),
      Comp(34081, -118262, "", 0, 1200000, 2000, "", 2023),
      Comp(34062, -118256, "R2", 0, 0, 0, "", 0) }

GridRentals ==
    { Rental(34062, -118256, 3000, 3, 1500, "Townhouse"),
      Rental(34081, -118239, 3500, 3, 1500, "Townhouse"),
      Rental(34062, -118256, 400, 3, 1500, "Townhouse") }

SubdivComp(lat, lng, adj_ppsf, zone) ==
    [lat |-> lat, lng |-> lng, ppsf |-> 500, adj_ppsf |-> adj_ppsf,
     price |-> 750000, sqft |-> 1500, lot |-> 2000, yb |-> 2021, sold |-> 0,
     zip |-> "90026", cluster_id |-> 1, cluster_size |-> 2, appr_pct |-> 0,
     zone |-> zone]

GridSubdivComps ==
    { SubdivComp(34062, -118256, 520, "R2"), SubdivComp(34081, -118239, 540, ""),
      SubdivComp(34062, -118256, 0, "R2") }

LoadGridComp == \E c \in GridComps : LoadComp(c)

StampGridFmr ==
    StampFmr([lat |-> 34059, lng |-> -118251, zip |-> "90026"],
             [exists |-> FALSE, data |-> EmptyDict])

LoadGridRental == \E c \in GridRentals : LoadRentalComp(c)

IndexGridSubdivComp == \E sc \in GridSubdivComps : IndexSubdivComp(sc)

NextGrid == LoadGridComp \/ StampGridFmr \/ LoadGridRental \/ IndexGridSubdivComp

SpecGrid == Init /\ [][NextGrid]_vars

\* the targets of the queries: inside a cell, on the low edge of a cell, and
\* next to the high edge
GridTargets == { <<34059, -118251>>, <<34050, -118260>>, <<34043, -118262>> }

Range(seq) == {seq[i] : i \in 1..Len(seq)}

\* a list as a bag
SeqBag(seq) ==
    [e \in Range(seq) |-> Cardinality({i \in 1..Len(seq) : seq[i] = e})]

\* the elements of a bag that pass Test, each made into its index entry
BagEntries(b, Test(_), MakeEntry(_)) ==
    LET kept == SelectSeq(BagToSeq(b), Test)
    IN  [i \in 1..Len(kept) |-> MakeEntry(kept[i])]

\* the brute-force scan: every entry inside the square box
BruteForce(entries, lat, lng, radius) ==
    SelectSeq(entries, LAMBDA e : InBox(e, lat, lng, radius))

\* the grid query of every target at every radius of the ladder finds what
\* the brute-force scan of the entries finds
QueryIsBruteForce(grid, entries, ladder) ==
    \A t \in GridTargets : \A radius \in Range(ladder) :
        SeqBag(collect_from_grid(grid, t[1], t[2], radius))
            = SeqBag(BruteForce(entries, t[1], t[2], radius))

Same(x) == x

\* every key of a grid is the cell floor(lat / cell), floor(lng / cell) of
\* each entry stored under it
StoredInOwnCell(grid) ==
    \A k \in DOMAIN grid : \A e \in BagToSet(grid[k]) :
        k = <<e.lat \div GRID_SIZE, e.lng \div GRID_SIZE>>

\* C18: for each of the five grid indexes, every target and every radius of
\* its ladder, the grid query returns exactly the indexed comps inside the
\* square box, and each comp is stored in the one cell of its coordinates
GridQueryIsBruteForce ==
    /\ QueryIsBruteForce(all_grid,
                         BagEntries(comps, LAMBDA c : ~ Skipped(c), Entry),
                         SEARCH_RADII_DEG)
    /\ \A z \in DOMAIN zone_grid :
         QueryIsBruteForce(zone_grid[z],
                           BagEntries(comps,
                                      LAMBDA c : ~ Skipped(c) /\ c.zone = z,
                                      Entry),
                           SEARCH_RADII_DEG)
    /\ \A z \in DOMAIN newcon_zone_grid :
         QueryIsBruteForce(newcon_zone_grid[z],
                           BagEntries(comps,
                                      LAMBDA c : /\ ~ Skipped(c)
                                                 /\ IsNewcon(c)
                                                 /\ c.zone = z,
                                      NcEntry),
                           NEWCON_RADII)
    /\ QueryIsBruteForce(subdiv_grid,
                         BagEntries(subdiv_comps_raw,
                                    LAMBDA sc : ~ SubdivSkipped(sc), Same),
                         SUBDIV_RADII)
    /\ \A z \in DOMAIN subdiv_zone_grid :
         QueryIsBruteForce(subdiv_zone_grid[z],
                           BagEntries(subdiv_comps_raw,
                                      LAMBDA sc : /\ ~ SubdivSkipped(sc)
                                                  /\ sc.zone = z,
                                      Same),
                           SUBDIV_RADII)
    /\ QueryIsBruteForce(rental_grid,
                         BagEntries(rental_comps,
                                    LAMBDA c : ~ RentalSkipped(c), RentalEntry),
                         RENTAL_RADII)
    /\ StoredInOwnCell(all_grid)
    /\ \A z \in DOMAIN zone_grid : StoredInOwnCell(zone_grid[z])
    /\ \A z \in DOMAIN newcon_zone_grid : StoredInOwnCell(newcon_zone_grid[z])
    /\ StoredInOwnCell(subdiv_grid)
    /\ \A z \in DOMAIN subdiv_zone_grid : StoredInOwnCell(subdiv_zone_grid[z])
    /\ StoredInOwnCell(rental_grid)

\* all five indexes hold a comp that the target (34.059, -118.251) finds at
\* the smallest radius in a neighbouring cell, the subdivision and rental
\* indexes one more that it finds only at the widest radius, in the outermost
\* ring of the block; each index also was offered a record it skipped
GridQueryIsBruteForceWitness ==
    /\ "R2" \in DOMAIN zone_grid
    /\ "R2" \in DOMAIN newcon_zone_grid
    /\ "R2" \in DOMAIN subdiv_zone_grid
    /\ Len(collect_from_grid(all_grid, 34059, -118251, 7)) = 1
    /\ <<3408, -11827>> \in DOMAIN all_grid
    /\ Len(collect_from_grid(zone_grid["R2"], 34059, -118251, 7)) = 1
    /\ Len(collect_from_grid(newcon_zone_grid["R2"], 34059, -118251, 7)) = 1
    /\ Len(collect_from_grid(subdiv_grid, 34059, -118251, 7)) = 1
    /\ Len(collect_from_grid(subdiv_grid, 34059, -118251, 29)) = 2
    /\ Len(collect_from_grid(subdiv_zone_grid["R2"], 34059, -118251, 7)) = 1
    /\ Len(collect_from_grid(rental_grid, 34059, -118251, 7)) = 1
    /\ Len(collect_from_grid(rental_grid, 34059, -118251, 29)) = 2
    /\ BagCardinality(comps)
          > newcon_count + BagCardinality(all_grid[<<3408, -11827>>])
    /\ BagCardinality(subdiv_comps_raw) > subdiv_count
    /\ BagCardinality(rental_comps) > rental_comp_count

----------------------------------------------------------------------------
(* C19 *)

\* a usable comp of any zone within the widest radius of the exit ladder
AnyZoneWidest(c) == Usable(c) /\ Near(c, SEARCH_RADII_DEG[Len(SEARCH_RADII_DEG)])

\* the comps behind the (zip, zone) aggregate of the listing
InZipZone(c) ==
    /\ Usable(c)
    /\ c.zip # "" /\ c.zip = listing.zip
    /\ c.zone # "" /\ c.zone = listing.zone

\* the comps behind the zip aggregate of the listing
InZip(c) == Usable(c) /\ c.zip # "" /\ c.zip = listing.zip

\* C19: the zip aggregates are answered only when no comp of any zone lies
\* within the widest radius; 'zip+zone' exactly when, besides, the (zip, zone)
\* aggregate holds at least 3 comps, 'zip' exactly when it does not and the zip
\* holds at least one comp; both report radius 0, the size of the whole
\* aggregate and its P75
ZipFallbackLaw ==
    ExitStamped =>
        /\ listing.compMethod \in {"zip+zone", "zip"}
              => /\ NumComps(AnyZoneWidest) = 0
                 /\ listing.compRadius = 0
        /\ listing.compMethod = "zip+zone"
              <=> /\ NumComps(AnyZoneWidest) = 0
                  /\ NumComps(InZipZone) >= 3
        /\ listing.compMethod = "zip+zone"
              => /\ listing.compCount = NumComps(InZipZone)
                 /\ IsP75Of(listing.exitPsf, InZipZone)
        /\ listing.compMethod = "zip"
              <=> /\ NumComps(AnyZoneWidest) = 0
                  /\ NumComps(InZipZone) < 3
                  /\ NumComps(InZip) >= 1
        /\ listing.compMethod = "zip"
              => /\ listing.compCount = NumComps(InZip)
                 /\ IsP75Of(listing.exitPsf, InZip)

\* two comps of the listing's zip and zone, too few for 'zip+zone', and a
\* dearer one of another zone in the same zip: 'zip' over the three
ZipFallbackLawWitness ==
    /\ ExitStamped
    /\ listing.compMethod = "zip"
    /\ NumComps(InZipZone) = 2
    /\ listing.compCount = 3
    /\ listing.exitPsf = 800
    /\ listing.compRadius = 0

\* three comps of the listing's zip and zone out of reach: 'zip+zone'
ZipZoneAnswered ==
    /\ ExitStamped
    /\ listing.compMethod = "zip+zone"
    /\ listing.compCount = 3
    /\ NumComps(InZip) > 3

----------------------------------------------------------------------------
(* C20 *)

\* a comp the cascade sees at a radius: qualifying, within the radius, of the
\* listing's zone or, in the cross-zone phase, of an adjacent zone
Collected(c, radius, cross) ==
    /\ Qualifying(c)
    /\ Near(c, radius)
    /\ (SameZone(c) \/ (cross /\ AdjacentZone(c)))

\* the pool holds exactly the loaded comps that pass Test, copies included
PoolIs(Test(_)) ==
    /\ Len(newcon_pool) = NumComps(Test)
    /\ \A c \in DOMAIN comps :
          Test(c) =>
             Cardinality({i \in 1..Len(newcon_pool) :
                             /\ newcon_pool[i].lat = c.lat
                             /\ newcon_pool[i].lng = c.lng
                             /\ newcon_pool[i].ppsf = CompPpsf(c)
                             /\ newcon_pool[i].sqft = c.sqft
                             /\ newcon_pool[i].yb = c.yb})
               = NumComps(LAMBDA d : /\ Test(d)
                                     /\ d.lat = c.lat /\ d.lng = c.lng
                                     /\ CompPpsf(d) = CompPpsf(c)
                                     /\ d.sqft = c.sqft /\ d.yb = c.yb)

\* the pool and the label are what the cascade yields on the comps collected
\* at the radius, n24 and n23 of them built 2024 or later and 2023 or later
CascadeAt(radius, cross, n24, n23) ==
    IF n24 >= 5
    THEN /\ listing.newconTier = "2024-25"
         /\ PoolIs(LAMBDA c : Collected(c, radius, cross) /\ c.yb >= 2024)
    ELSE IF n23 >= 5
    THEN /\ listing.newconTier = "2023+"
         /\ PoolIs(LAMBDA c : Collected(c, radius, cross) /\ c.yb >= 2023)
    ELSE /\ listing.newconTier \in {"2023+", "2021-22 adj"}
         /\ PoolIs(LAMBDA c : Collected(c, radius, cross))

CascadeAtRadius(radius, cross) ==
    CascadeAt(radius, cross,
              NumComps(LAMBDA c : Collected(c, radius, cross) /\ c.yb >= 2024),
              NumComps(LAMBDA c : Collected(c, radius, cross) /\ c.yb >= 2023))

\* what a pooled comp contributes to the P75
PooledPrice(e) ==
    IF e.yb \in {2021, 2022} THEN PyRound(9 * e.ppsf, 10) ELSE e.ppsf

\* C20: the pool behind a new-construction result is, at some radius of the
\* ladder, the comps built 2024 or later if they are at least 5, else those
\* built 2023 or later if at least 5, else all those built 2021 or later;
\* every pooled comp is within the size band; the P75 is taken over the pool
\* with round(0.90 * ppsf) for each 2021-2022 comp and the full $/SF for each
\* later one; the tier is '2021-22 adj' exactly when the pool holds a
\* 2021-2022 comp
VintageCascade ==
    (NewconStamped /\ listing.newconZoneMatch # "None") =>
        /\ \E radius \in NewconLadder :
              CascadeAtRadius(radius, listing.newconZoneMatch = "False")
        /\ \A i \in 1..Len(newcon_pool) :
              1300 <= newcon_pool[i].sqft /\ newcon_pool[i].sqft <= 3500
        /\ Len(p75_calls) = 1
        /\ p75_calls[1].vals
              = SortAsc([i \in 1..Len(newcon_pool) |-> PooledPrice(newcon_pool[i])])
        /\ listing.newconCount = Len(newcon_pool)
        /\ listing.newconTier = "2021-22 adj"
              <=> \E i \in 1..Len(newcon_pool) : newcon_pool[i].yb \in {2021, 2022}

\* a pool of 2023+ comps and 2021-2022 comps: the $/SF 415 of a 2022 comp
\* enters the P75 as 374, the $/SF 800 of a 2023 comp as 800
VintageCascadeWitness ==
    /\ NewconStamped
    /\ listing.newconTier = "2021-22 adj"
    /\ \E i \in 1..Len(newcon_pool) :
          newcon_pool[i].yb = 2022 /\ newcon_pool[i].ppsf = 415
    /\ \E i \in 1..Len(newcon_pool) :
          newcon_pool[i].yb = 2023 /\ newcon_pool[i].ppsf = 800
    /\ \E i \in 1..Len(p75_calls[1].vals) : p75_calls[1].vals[i] = 374
    /\ \E i \in 1..Len(p75_calls[1].vals) : p75_calls[1].vals[i] = 800
    /\ \A i \in 1..Len(p75_calls[1].vals) : p75_calls[1].vals[i] # 415

\* five comps built 2024 or later within the first radius, used alone
VintageNewestAlone ==
    /\ NewconStamped
    /\ listing.newconTier = "2024-25"
    /\ Len(newcon_pool) = 5
    /\ \A i \in 1..Len(newcon_pool) : newcon_pool[i].yb >= 2024

\* five comps built 2023 or later, fewer than five of them 2024 or later,
\* used without the 2022 comp that lies where the 2023 comp lies
VintageSecondTier ==
    /\ NewconStamped
    /\ listing.newconTier = "2023+"
    /\ Len(newcon_pool) = 5
    /\ \E i \in 1..Len(newcon_pool) :
          newcon_pool[i].yb = 2023 /\ newcon_pool[i].lat = 34062
    /\ NumComps(LAMBDA c : Collected(c, 15, FALSE) /\ c.yb = 2022
                           /\ c.lat = 34062) >= 1

----------------------------------------------------------------------------
(***************************************************************************)
(* build_comps.py: the rows of redfin_sold.csv become the comps of         *)
(* data.js.  A CSV cell that is parsed as a number is a sequence of        *)
(* one-character strings, and a parsed float is an exact fraction          *)
(* <<num, den>>.                                                           *)
(***************************************************************************)
MaxCsvRows == 3

BC_MIN_SQFT == 100
MAX_PRICE == 50000000
MAX_PPSF == 5000
BC_MIN_YEAR_BUILT == 1800
CURRENT_YEAR == 2026
LAT_MIN == 33700
LAT_MAX == 34850
LNG_MIN == -118950
LNG_MAX == -117550

PT_MAP ==
    [t \in {"Single Family Residential", "Townhouse", "Condo/Co-op",
            "Multi-Family (2-4 Unit)", "Multi-Family (5+ Unit)",
            "Mobile/Manufactured Home", "Ranch"} |->
        CASE t = "Townhouse" -> 3
          [] t = "Condo/Co-op" -> 2
          [] t = "Multi-Family (2-4 Unit)" -> 4
          [] t = "Multi-Family (5+ Unit)" -> 5
          [] OTHER -> 1]

\* the outcome of float() on a string it cannot parse
ValueError == <<0, 0>>

DigitChars == <<"0", "1", "2", "3", "4", "5", "6", "7", "8", "9">>

IsDigit(ch) == \E d \in 1..10 : DigitChars[d] = ch

DigitOf(ch) == (CHOOSE d \in 1..10 : DigitChars[d] = ch) - 1

\* re.sub(r"[^0-9.]", "", s)
KeepNumeric(s) == SelectSeq(s, LAMBDA ch : IsDigit(ch) \/ ch = ".")

\* s.strip()
RECURSIVE Strip(_)
Strip(s) ==
    IF s = << >> THEN s
    ELSE IF Head(s) = " " THEN Strip(Tail(s))
    ELSE IF s[Len(s)] = " " THEN Strip(SubSeq(s, 1, Len(s) - 1))
    ELSE s

\* int(s) for a string of decimal digits
RECURSIVE ToInt(_)
ToInt(s) ==
    IF s = << >> THEN 0
    ELSE 10 * ToInt(SubSeq(s, 1, Len(s) - 1)) + DigitOf(s[Len(s)])

\* float(s) for a string of digits and dots
PyFloat(s) ==
    LET digits == SelectSeq(s, IsDigit)
        dots == SelectSeq(s, LAMBDA ch : ch = ".")
    IN  IF Len(dots) > 1 \/ digits = << >> THEN ValueError
        ELSE IF dots = << >> THEN <<ToInt(s), 1>>
        ELSE <<ToInt(digits),
               Pow(10, Len(s) - (CHOOSE i \in 1..Len(s) : s[i] = "."))>>

\* float(re.sub(r"[^0-9.]", "", cell or "0") or "0")
NumberCell(cell) ==
    IF KeepNumeric(cell) = << >> THEN <<0, 1>> ELSE PyFloat(KeepNumeric(cell))

\* s.isdigit()
IsDigitString(s) == s # << >> /\ \A i \in 1..Len(s) : IsDigit(s[i])

\* lines 331-334
YearBuilt(cell) ==
    LET year_built == IF IsDigitString(Strip(cell)) THEN ToInt(Strip(cell))
                      ELSE NoneInt
    IN  IF /\ year_built # NoneInt
           /\ year_built # 0
           /\ (year_built < BC_MIN_YEAR_BUILT \/ year_built > CURRENT_YEAR)
        THEN NoneInt
        ELSE year_built

\* the optional fields pt, bd and ba (lines 371-376)
OptionalFields(prop_type, beds_str, baths_str) ==
    (IF prop_type \in DOMAIN PT_MAP THEN [pt |-> PT_MAP[prop_type]] ELSE EmptyDict)
    @@ (IF beds_str # << >>
        THEN [bd |-> PyFloat(beds_str)[1] \div PyFloat(beds_str)[2]]
        ELSE EmptyDict)
    @@ (IF baths_str # << >> THEN [ba |-> PyFloat(baths_str)] ELSE EmptyDict)

\* the record of lines 359-376; price and sqft are the parsed floats
Rec(row, price, sqft, ppsf) ==
    [lat |-> row.lat, lng |-> row.lng,
     price |-> price[1] \div price[2],
     sqft |-> sqft[1] \div sqft[2],
     zone |-> IF row.type \in DOMAIN TYPE_TO_ZONE THEN TYPE_TO_ZONE[row.type] ELSE "",
     address |-> SelectSeq(<<row.address, row.city, "CA", row.zip>>,
                           LAMBDA p : p # ""),
     date |-> row.sold_date,
     zip |-> row.zip,
     ppsf |-> ppsf,
     yb |-> YearBuilt(row.year_built)]
    @@ OptionalFields(row.type, KeepNumeric(row.beds), KeepNumeric(row.baths))

\* one iteration of the loop of lines 299-378: what happens to the row
Normalize(row, price, sqft) ==
    LET lat == IF row.lat = NoneInt THEN 0 ELSE row.lat
        lng == IF row.lng = NoneInt THEN 0 ELSE row.lng
    IN  IF ~(LAT_MIN <= lat /\ lat <= LAT_MAX /\ LNG_MIN <= lng /\ lng <= LNG_MAX)
        THEN [kind |-> "skipped"]
        ELSE IF price = ValueError \/ sqft = ValueError
        THEN [kind |-> "skipped"]
        ELSE IF price[1] <= 0 \/ sqft[1] <= 0
        THEN [kind |-> "skipped"]
        ELSE IF row.sold_date = ""
        THEN [kind |-> "no_date"]
        ELSE IF \/ sqft[1] < BC_MIN_SQFT * sqft[2]
                \/ price[1] > MAX_PRICE * price[2]
                \/ PyRound(price[1] * sqft[2], price[2] * sqft[1]) > MAX_PPSF
        THEN [kind |-> "outlier"]
        ELSE IF \/ (KeepNumeric(row.beds) # << >>
                    /\ PyFloat(KeepNumeric(row.beds)) = ValueError)
                \/ (KeepNumeric(row.baths) # << >>
                    /\ PyFloat(KeepNumeric(row.baths)) = ValueError)
        THEN [kind |-> "skipped"]
        ELSE [kind |-> "comp",
              rec |-> Rec(row, price, sqft,
                          PyRound(price[1] * sqft[2], price[2] * sqft[1]))]

\* the body of the loop for the row at position i of the file
NormalizeRow(i, row) ==
    /\ bc_pc = "read"
    /\ i > csv_last
    /\ bc_total < MaxCsvRows
    /\ csv_last' = i
    /\ bc_total' = bc_total + 1
    /\ \E r \in {Normalize(row, NumberCell(row.price), NumberCell(row.sqft))} :
          /\ bc_comps' = IF r.kind = "comp" THEN Append(bc_comps, r.rec) ELSE bc_comps
          /\ skipped' = IF r.kind = "skipped" THEN skipped + 1 ELSE skipped
          /\ skip_no_date' = IF r.kind = "no_date" THEN skip_no_date + 1
                             ELSE skip_no_date
          /\ skip_outlier' = IF r.kind = "outlier" THEN skip_outlier + 1
                             ELSE skip_outlier
    /\ UNCHANGED <<bc_pc, fit_comps, fit_result, tiered_comps, clusters, fetch_vars,
                   comps, index_vars, listing, p75_calls, newcon_pool, pc,
                   subdiv_vars, rent_vars, btr_vars, subdiv_index_vars>>

\* the end of the file: exit(1) without comps (lines 386-388)
EndOfFile ==
    /\ bc_pc = "read"
    /\ bc_pc' = IF bc_comps = << >> THEN "exit1" ELSE "loaded"
    /\ UNCHANGED <<csv_last, bc_comps, bc_total, skipped, skip_no_date, skip_outlier,
                   fit_comps, fit_result, tiered_comps, clusters, fetch_vars,
                   comps, index_vars, listing, p75_calls, newcon_pool, pc,
                   subdiv_vars, rent_vars, btr_vars, subdiv_index_vars>>

CsvRow(price, sqft, sold_date, year_built) ==
    [lat |-> 34060, lng |-> -118250, price |-> price, sqft |-> sqft,
     sold_date |-> sold_date, year_built |-> year_built, zip |-> "90026",
     type |-> "Single Family Residential", beds |-> <<"3">>,
     baths |-> <<"2", ".", "5">>, address |-> "1 Main St", city |-> "Los Angeles"]

P850000 == <<"8", "5", "0", "0", "0", "0">>
S1700 == <<"1", "7", "0", "0">>
S1000 == <<"1", "0", "0", "0">>
Y1995 == <<"1", "9", "9", "5">>

\* the rows a redfin_sold.csv is made of, in file order
CsvRows ==
    << CsvRow(P850000, S1700, "March-3-2025", Y1995),
       [CsvRow(<<"$", "1", ",", "2", "0", "0", ",", "0", "0", "0">>,
               <<"2", ",", "0", "0", "0">>, "2025-03-03",
               <<" ", "2", "0", "2", "0", " ">>)
          EXCEPT !.type = "Townhouse", !.beds = << >>, !.baths = <<"3">>],
       \* a nominal price
       CsvRow(<<"1", "0", "0">>, S1000, "March-3-2025", Y1995),
       CsvRow(<<"0", ".", "4">>, S1000, "March-3-2025", Y1995),
       \* year built: 0, too old, in the future, the two ends, not a number
       CsvRow(P850000, S1700, "March-3-2025", <<"0">>),
       CsvRow(P850000, S1700, "March-3-2025", <<"1", "7", "5", "0">>),
       CsvRow(P850000, S1700, "March-3-2025", <<"2", "0", "3", "0">>),
       CsvRow(P850000, S1700, "March-3-2025", <<"1", "8", "0", "0">>),
       CsvRow(P850000, S1700, "March-3-2025", <<"2", "0", "2", "6">>),
       CsvRow(P850000, S1700, "March-3-2025", <<"n", "/", "a">>),
       \* outside the market, no price, no date
       [CsvRow(P850000, S1700, "March-3-2025", Y1995) EXCEPT !.lat = 35000],
       [CsvRow(P850000, S1700, "March-3-2025", Y1995) EXCEPT !.lat = NoneInt],
       CsvRow(<< >>, S1700, "March-3-2025", Y1995),
       CsvRow(P850000, <<"-">>, "March-3-2025", Y1995),
       CsvRow(P850000, S1700, "", Y1995),
       \* outliers, and the largest $/SF kept
       CsvRow(P850000, <<"5", "0">>, "March-3-2025", Y1995),
       CsvRow(<<"6", "0", "0", "0", "0", "0", "0">>, S1000, "March-3-2025", Y1995),
       CsvRow(<<"6", "0", "0", "0", "0", "0", "0", "0">>,
              <<"2", "0", "0", "0", "0">>, "March-3-2025", Y1995),
       CsvRow(<<"5", "0", "0", "0", "0", "0", "0">>, S1000, "March-3-2025", Y1995),
       \* cells float() rejects
       CsvRow(<<"1", ".", "2", ".", "3">>, S1700, "March-3-2025", Y1995),
       [CsvRow(P850000, S1700, "March-3-2025", Y1995) EXCEPT !.beds = <<".">>],
       [CsvRow(P850000, S1700, "March-3-2025", Y1995)
          EXCEPT !.type = "Vacant Land", !.baths = <<"n", "/", "a">>] >>

ReadCsvRow == \E i \in 1..Len(CsvRows) : NormalizeRow(i, CsvRows[i])

NextNormalize ==
    \/ ReadCsvRow
    \/ EndOfFile

SpecNormalize == Init /\ [][NextNormalize]_vars

Emitted(c) == \E i \in 1..Len(bc_comps) : bc_comps[i] = c

\* C21: every comp build_comps.py emits has a positive price, a positive
\* livable area and a derived $/SF that is positive and at most MAX_PPSF.
EmittedCompsArePositive ==
    \A i \in 1..Len(bc_comps) :
        /\ bc_comps[i].price > 0
        /\ bc_comps[i].sqft > 0
        /\ bc_comps[i].ppsf > 0
        /\ bc_comps[i].ppsf <= MAX_PPSF

\* what the filters of lines 314 and 327 do guarantee: an area of at least
\* MIN_SQFT, a price of at most MAX_PRICE, a $/SF from 0 to MAX_PPSF
EmittedCompsWithinFilters ==
    \A i \in 1..Len(bc_comps) :
        /\ bc_comps[i].sqft >= BC_MIN_SQFT
        /\ bc_comps[i].price >= 0
        /\ bc_comps[i].price <= MAX_PRICE
        /\ bc_comps[i].ppsf >= 0
        /\ bc_comps[i].ppsf <= MAX_PPSF

\* a sale at $100 for 1,000 SF is emitted with ppsf 0
NominalSaleEmitted ==
    \E i \in 1..Len(bc_comps) :
        bc_comps[i].price = 100 /\ bc_comps[i].sqft = 1000 /\ bc_comps[i].ppsf = 0

\* C23: every emitted comp has yb null or within [MIN_YEAR_BUILT, current
\* year].
YearBuiltNullOrPlausible ==
    \A i \in 1..Len(bc_comps) :
        \/ bc_comps[i].yb = NoneInt
        \/ (BC_MIN_YEAR_BUILT <= bc_comps[i].yb /\ bc_comps[i].yb <= CURRENT_YEAR)

\* apart from year 0 the claim holds
YearBuiltNullZeroOrPlausible ==
    \A i \in 1..Len(bc_comps) :
        \/ bc_comps[i].yb = NoneInt
        \/ bc_comps[i].yb = 0
        \/ (BC_MIN_YEAR_BUILT <= bc_comps[i].yb /\ bc_comps[i].yb <= CURRENT_YEAR)

\* a row with YEAR BUILT "0" is emitted with yb = 0, rows with years out of
\* range with yb null
YearZeroEmitted ==
    /\ \E i \in 1..Len(bc_comps) : bc_comps[i].yb = 0
    /\ \E i \in 1..Len(bc_comps) : bc_comps[i].yb = NoneInt
    /\ skipped = 0 /\ skip_outlier = 0 /\ skip_no_date = 0 /\ bc_total = 2

----------------------------------------------------------------------------
(***************************************************************************)
(* build_comps.py: fit_size_curve.  A recency weight rw is in hundredths.  *)
(* The weighted sums are taken in units of the greatest common divisors    *)
(* of the weights, areas and prices, the quotients are exact fractions in  *)
(* $ and SF.  The regression of comps of one size has denominator 0 in     *)
(* exact arithmetic; in floating point it is 0 when every weight is a      *)
(* binary fraction (1.0, 0.5) and the rounding residue of sw * sxx -       *)
(* sx * sx otherwise, with the slope the quotient of two such residues.    *)
(* The field stdev, a floating-point square root, is left out.             *)
(***************************************************************************)
MaxFitComps == 4

ARV_CONFIG ==
    [cell_size |-> 5, target_sf |-> 1750, min_comps_per_cell |-> 3,
     default_premium |-> 120, min_slope |-> 200, max_slope |-> 1500,
     sqft_min |-> 1000, sqft_max |-> 3500]

\* Python None where a dict is expected
NoneRecord == [none |-> TRUE]

\* fraction arithmetic on reduced fractions, dividing before multiplying
FAdd(a, b) ==
    Frac(a[1] * (b[2] \div Gcd(a[2], b[2])) + b[1] * (a[2] \div Gcd(a[2], b[2])),
         (a[2] \div Gcd(a[2], b[2])) * b[2])

FSub(a, b) == FAdd(a, <<-b[1], b[2]>>)

FMul(a, b) ==
    <<(a[1] \div Gcd(Abs(a[1]), b[2])) * (b[1] \div Gcd(Abs(b[1]), a[2])),
      (a[2] \div Gcd(Abs(b[1]), a[2])) * (b[2] \div Gcd(Abs(a[1]), b[2]))>>

FLess(a, b) == a[1] * b[2] < b[1] * a[2]

RECURSIVE GcdAll(_)
GcdAll(s) == IF s = << >> THEN 0 ELSE Gcd(Head(s), GcdAll(Tail(s)))

\* c.get('rw', 0.5)
Weight(c) == IF "rw" \in DOMAIN c THEN c.rw ELSE 50

\* the comps the regression uses (lines 155-156)
FitValid(cs) ==
    SelectSeq(cs, LAMBDA c : /\ ARV_CONFIG.sqft_min <= c.sqft
                                /\ c.sqft <= ARV_CONFIG.sqft_max
                                /\ c.ppsf > 0)

Map(s, F(_)) == [i \in 1..Len(s) |-> F(s[i])]

\* sum(w * x^px * y^py) over the valid comps, in units uw, ux, uy
RECURSIVE WeightedSum(_, _, _, _, _, _)
WeightedSum(valid, uw, ux, uy, px, py) ==
    IF valid = << >> THEN 0
    ELSE (Weight(Head(valid)) \div uw) * Pow(Head(valid).sqft \div ux, px)
             * Pow(Head(valid).price \div uy, py)
         + WeightedSum(Tail(valid), uw, ux, uy, px, py)

\* floating point computes the sums without rounding
ExactWeights(valid) == \A i \in 1..Len(valid) : Weight(valid[i]) % 25 = 0

\* round(n * m / d) for n >= 0, dividing before multiplying
RoundMulDiv(n, m, d) ==
    LET floor == m * (n \div d) + (m * (n % d)) \div d
        rest == (m * (n % d)) % d
    IN  IF 2 * rest > d \/ (2 * rest = d /\ floor % 2 = 1) THEN floor + 1
        ELSE floor

\* lines 179-190: the record for a predicted price in units of uy dollars
FitRecord(predicted_price, uy, target_sf) ==
    IF predicted_price[1] <= 0 THEN NoneRecord
    ELSE [ppsf_at_target |->
              RoundMulDiv(predicted_price[1], Frac(uy, target_sf)[1],
                          predicted_price[2] * Frac(uy, target_sf)[2]),
          price_at_target |->
              RoundMulDiv(predicted_price[1], uy, predicted_price[2])]

\* lines 173-190 for a slope in uy dollars per ux SF and the weighted means
\* sx / sw, sy / sw: intercept = (sy - slope * sx) / sw
FitLine(slope, mean_x, mean_y, ux, uy, target_sf) ==
    IF \/ FLess(FMul(slope, Frac(uy, ux)), <<ARV_CONFIG.min_slope, 1>>)
       \/ FLess(<<ARV_CONFIG.max_slope, 1>>, FMul(slope, Frac(uy, ux)))
    THEN NoneRecord
    ELSE FitRecord(FAdd(FSub(mean_y, FMul(slope, mean_x)),
                        FMul(slope, Frac(target_sf, ux))),
                   uy, target_sf)

\* lines 167-175 on the weighted sums; residue is what rounding leaves of a
\* denominator that is 0 in exact arithmetic
Regress(sw, sx, sy, sxx, sxy, ux, uy, exact, target_sf, residue) ==
    IF sw * sxx - sx * sx = 0
    THEN IF exact \/ residue.below THEN NoneRecord
         ELSE FitLine(FMul(<<residue.slope, 1>>, Frac(ux, uy)), Frac(sx, sw),
                      Frac(sy, sw), ux, uy, target_sf)
    ELSE FitLine(Frac(sw * sxy - sx * sy, sw * sxx - sx * sx), Frac(sx, sw),
                 Frac(sy, sw), ux, uy, target_sf)

FitSums(valid, uw, ux, uy, target_sf, residue) ==
    Regress(WeightedSum(valid, uw, ux, uy, 0, 0),
            WeightedSum(valid, uw, ux, uy, 1, 0),
            WeightedSum(valid, uw, ux, uy, 0, 1),
            WeightedSum(valid, uw, ux, uy, 2, 0),
            WeightedSum(valid, uw, ux, uy, 1, 1),
            ux, uy, ExactWeights(valid), target_sf, residue)

fit_size_curve(cs, target_sf, residue) ==
    IF Len(FitValid(cs)) < 3 THEN NoneRecord
    ELSE FitSums(FitValid(cs),
                 GcdAll(Map(FitValid(cs), Weight)),
                 GcdAll(Map(FitValid(cs), LAMBDA c : c.sqft)),
                 GcdAll(Map(FitValid(cs), LAMBDA c : c.price)),
                 target_sf, residue)

\* what rounding can leave of a degenerate regression: a denominator below
\* the threshold of line 170, or a slope inside or outside the limits
Residues ==
    { [below |-> TRUE, slope |-> 0],
      [below |-> FALSE, slope |-> 512],
      [below |-> FALSE, slope |-> 1024],
      [below |-> FALSE, slope |-> 2048] }

\* one call of fit_size_curve(comps, TARGET_SF) on a list of comps
FitCurve(comps_in, residue) ==
    /\ fit_comps = << >>
    /\ comps_in # << >>
    /\ fit_comps' = comps_in
    /\ fit_result' = fit_size_curve(comps_in, ARV_CONFIG.target_sf, residue)
    /\ UNCHANGED <<csv_last, bc_comps, bc_total, skipped, skip_no_date, skip_outlier,
                   bc_pc, tiered_comps, clusters, fetch_vars,
                   comps, index_vars, listing, p75_calls, newcon_pool, pc,
                   subdiv_vars, rent_vars, btr_vars, subdiv_index_vars>>

FitComp(sqft, price, rw) ==
    [sqft |-> sqft, price |-> price, ppsf |-> PyRound(price, sqft), rw |-> rw]

\* the comps the lists handed to fit_size_curve are drawn from
FitComps ==
    << \* on the line 400 $/SF + $400,000
       FitComp(1000, 800000, 100), FitComp(1500, 1000000, 100),
       FitComp(2000, 1200000, 50),
       \* of one size, with weights 1.0, 0.5 and with weights 0.85, 0.2
       FitComp(1500, 1000000, 50), FitComp(1500, 1300000, 100),
       FitComp(1000, 900000, 85), FitComp(1000, 1000000, 20),
       \* flat, steep, and steep from a large size
       FitComp(3000, 1000000, 100), FitComp(2500, 3000000, 100),
       FitComp(3000, 300000, 100), FitComp(3500, 600000, 50),
       FitComp(3250, 450000, 100),
       \* outside the size window, and without $/SF
       FitComp(900, 700000, 100), FitComp(3600, 2000000, 100),
       FitComp(2000, 100, 100) >>

\* the sublists, in list order, of at most MaxFitComps comps
RECURSIVE Sublists(_, _)
Sublists(s, k) ==
    IF s = << >> \/ k = 0 THEN {<< >>}
    ELSE Sublists(Tail(s), k)
         \cup { <<Head(s)>> \o t : t \in Sublists(Tail(s), k - 1) }

FitInputs == Sublists(FitComps, MaxFitComps)

CallFitCurve == \E cs \in FitInputs, r \in Residues : FitCurve(cs, r)

NextFit == CallFitCurve

SpecFit == Init /\ [][NextFit]_vars

\* the valid comps all have one size: the weighted variance of the sizes,
\* the denominator of the regression, is zero
SameSize(valid) == \A i, j \in 1..Len(valid) : valid[i].sqft = valid[j].sqft

\* sum over the pairs i < j of w_i * w_j * (x_i - x_j) * (y_i - y_j), or of
\* w_i * w_j * (x_i - x_j)^2, in units
RECURSIVE PairSum(_, _, _, _, _, _, _)
PairSum(valid, uw, ux, uy, i, j, with_price) ==
    IF i >= Len(valid) THEN 0
    ELSE IF j > Len(valid) THEN PairSum(valid, uw, ux, uy, i + 1, i + 2, with_price)
    ELSE (Weight(valid[i]) \div uw) * (Weight(valid[j]) \div uw)
             * ((valid[i].sqft - valid[j].sqft) \div ux)
             * (IF with_price THEN (valid[i].price - valid[j].price) \div uy
                ELSE (valid[i].sqft - valid[j].sqft) \div ux)
         + PairSum(valid, uw, ux, uy, i, j + 1, with_price)

\* the least-squares slope in uy dollars per ux SF, from the pairwise form
\* sum w_i w_j (x_i - x_j)(y_i - y_j) / sum w_i w_j (x_i - x_j)^2
LeastSquaresSlope(valid, uw, ux, uy) ==
    Frac(PairSum(valid, uw, ux, uy, 1, 2, TRUE),
         PairSum(valid, uw, ux, uy, 1, 2, FALSE))

\* the price the least-squares line gives at target_sf, in uy dollars: the
\* line passes through the weighted means
PredictedAt(valid, slope, uw, ux, uy, target_sf) ==
    FAdd(Frac(WeightedSum(valid, uw, ux, uy, 0, 1), WeightedSum(valid, uw, ux, uy, 0, 0)),
         FMul(slope, FSub(Frac(target_sf, ux),
                          Frac(WeightedSum(valid, uw, ux, uy, 1, 0),
                               WeightedSum(valid, uw, ux, uy, 0, 0)))))

\* the conditions under which the fit is null, and the record otherwise
FitAsDocumented(valid, uw, ux, uy, target_sf, result) ==
    IF Len(valid) < 3 \/ SameSize(valid) THEN result = NoneRecord
    ELSE \E slope \in {LeastSquaresSlope(valid, uw, ux, uy)} :
         \E predicted \in {PredictedAt(valid, slope, uw, ux, uy, target_sf)} :
            IF \/ FLess(FMul(slope, Frac(uy, ux)), <<ARV_CONFIG.min_slope, 1>>)
               \/ FLess(<<ARV_CONFIG.max_slope, 1>>, FMul(slope, Frac(uy, ux)))
               \/ predicted[1] <= 0
            THEN result = NoneRecord
            ELSE /\ result # NoneRecord
                 /\ result.price_at_target > 0
                 /\ result.ppsf_at_target =
                        RoundMulDiv(predicted[1], Frac(uy, target_sf)[1],
                                    predicted[2] * Frac(uy, target_sf)[2])

FitCalled == fit_comps # << >>

FitChecked(valid) ==
    FitAsDocumented(valid, GcdAll(Map(valid, Weight)),
                    GcdAll(Map(valid, LAMBDA c : c.sqft)),
                    GcdAll(Map(valid, LAMBDA c : c.price)),
                    ARV_CONFIG.target_sf, fit_result)

\* C24: fit_size_curve returns None exactly when fewer than 3 comps qualify,
\* or the regression is degenerate, or the slope is outside [200, 1500], or
\* the predicted price at the target area is not positive; otherwise it
\* returns a positive price_at_target and ppsf_at_target = round(predicted
\* price / target area).
FitNoneExactlyAsDocumented == FitCalled => FitChecked(FitValid(fit_comps))

\* the same where floating point computes the weighted sums exactly, or the
\* comps are not all of one size
FitNoneAsDocumentedWhenExact ==
    (/\ FitCalled
     /\ (ExactWeights(FitValid(fit_comps)) \/ ~SameSize(FitValid(fit_comps))))
    => FitChecked(FitValid(fit_comps))

\* three comps of 1,000 SF with weights 1.0, 0.85 and 0.2 give a fit
DegenerateFitReturned ==
    /\ FitCalled
    /\ Len(FitValid(fit_comps)) = 3
    /\ Len(fit_comps) = 3
    /\ SameSize(FitValid(fit_comps))
    /\ fit_result = [ppsf_at_target |-> 711, price_at_target |-> 1244976]

\* a fit of comps of several sizes, and each way to None
FitReturned ==
    /\ FitCalled
    /\ ~SameSize(FitValid(fit_comps))
    /\ fit_result = [ppsf_at_target |-> 629, price_at_target |-> 1100000]

----------------------------------------------------------------------------
(***************************************************************************)
(* build_comps.py: compute_clusters.  The comps carry the tier t and the   *)
(* recency weight rw stamped by lines 415-420.  A cluster's lat and lng    *)
(* are in units of 0.0001 degree, its id is the cell's corner in           *)
(* millidegrees, and its rw is in hundredths.                              *)
(***************************************************************************)
MaxClusterComps == 6

\* int(a / b) for b > 0: truncation toward zero
IntTrunc(a, b) == IF a >= 0 THEN a \div b ELSE -((-a) \div b)

\* lines 203-204
ClusterCell(c) ==
    <<IntTrunc(c.lat, ARV_CONFIG.cell_size), IntTrunc(c.lng, ARV_CONFIG.cell_size)>>

\* the keys of the dict cells in insertion order (lines 201-208)
RECURSIVE CellKeys(_, _)
CellKeys(cs, seen) ==
    IF cs = << >> THEN seen
    ELSE IF \E i \in 1..Len(seen) : seen[i] = ClusterCell(Head(cs))
    THEN CellKeys(Tail(cs), seen)
    ELSE CellKeys(Tail(cs), Append(seen, ClusterCell(Head(cs))))

\* sorted(ppsfs)[len(ppsfs) // 2]
MedianPpsf(cs) == SortAsc(Map(cs, LAMBDA c : c.ppsf))[Len(cs) \div 2 + 1]

\* lines 228-234: the fields of a successful tier-1 fit
Tier1Fields(t1_result) ==
    IF t1_result = NoneRecord THEN EmptyDict
    ELSE [t1psf |-> t1_result.ppsf_at_target, t1price |-> t1_result.price_at_target,
          t1fb |-> 0]

\* lines 236-241: the fields of a successful tier-2 fit
Tier2Fields(t2_result) ==
    IF t2_result = NoneRecord THEN EmptyDict
    ELSE [t2psf |-> t2_result.ppsf_at_target, t2price |-> t2_result.price_at_target]

\* lines 246-257: the fields fallback 1 sets from the all-comps fit
Fallback1Fields(all_result, t1, t2, premium) ==
    [t1psf |-> all_result.ppsf_at_target + PyRound(premium, 2),
     t2psf |-> all_result.ppsf_at_target - PyRound(premium, 2),
     t1price |-> (all_result.ppsf_at_target + PyRound(premium, 2)) * ARV_CONFIG.target_sf,
     t2price |-> (all_result.ppsf_at_target - PyRound(premium, 2)) * ARV_CONFIG.target_sf,
     t1fb |-> 1]

\* lines 261-268: the fields fallback 3 sets from the median of all comps
Fallback3Fields(median_all) ==
    [t1psf |-> PyRound(median_all * 11, 10),
     t2psf |-> PyRound(median_all * 9, 10),
     t1price |-> PyRound(median_all * 11, 10) * ARV_CONFIG.target_sf,
     t2price |-> PyRound(median_all * 9, 10) * ARV_CONFIG.target_sf,
     t1fb |-> 3]

\* fallback 1 taken in a cell of any size
FallbackFieldsAnySize(all_c, t1, t2, t1_result, all_result) ==
    IF t1_result # NoneRecord THEN EmptyDict
    ELSE IF all_result # NoneRecord
    THEN Fallback1Fields(all_result, t1, t2,
                         IF Len(t1) >= 2 /\ Len(t2) >= 2
                         THEN MedianPpsf(t1) - MedianPpsf(t2)
                         ELSE ARV_CONFIG.default_premium)
    ELSE Fallback3Fields(MedianPpsf(all_c))

\* lines 243-270: the fallbacks, which run only without a tier-1 fit
FallbackFields(all_c, t1, t2, t1_result, all_result) ==
    IF t1_result # NoneRecord THEN EmptyDict
    ELSE IF Len(all_c) >= 5 /\ all_result # NoneRecord
    THEN Fallback1Fields(all_result, t1, t2,
                         IF Len(t1) >= 2 /\ Len(t2) >= 2
                         THEN MedianPpsf(t1) - MedianPpsf(t2)
                         ELSE ARV_CONFIG.default_premium)
    ELSE Fallback3Fields(MedianPpsf(all_c))

\* round(num / den, 2) in hundredths; a mean that ends in 5 thousandths has
\* no exact floating-point value and is rounded up or down
RoundHundredths(num, den, tie_up) ==
    IF 2 * (num % den) = den
    THEN (IF tie_up THEN num \div den + 1 ELSE num \div den)
    ELSE PyRound(num, den)

\* lines 272-278: prem and rw on the fields set so far
Derived(cluster, all_c, tie_up) ==
    (IF "t1psf" \in DOMAIN cluster /\ "t2psf" \in DOMAIN cluster
     THEN [prem |-> cluster.t1psf - cluster.t2psf]
     ELSE EmptyDict)
    @@ [rw |-> RoundHundredths(WeightedSum(all_c, 1, 1, 1, 0, 0), Len(all_c), tie_up)]
    @@ cluster

\* lines 211-280 for one cell; a later assignment overwrites an earlier one
Cluster(key, all_c, t1, t2, t1_result, t2_result, all_result, tie_up) ==
    Derived(FallbackFields(all_c, t1, t2, t1_result, all_result)
            @@ Tier2Fields(t2_result)
            @@ Tier1Fields(t1_result)
            @@ [id |-> <<key[1] * ARV_CONFIG.cell_size, key[2] * ARV_CONFIG.cell_size>>,
                lat |-> 10 * key[1] * ARV_CONFIG.cell_size + 5 * ARV_CONFIG.cell_size,
                lng |-> 10 * key[2] * ARV_CONFIG.cell_size + 5 * ARV_CONFIG.cell_size,
                n |-> Len(all_c), t1n |-> Len(t1), t2n |-> Len(t2)],
            all_c, tie_up)

InTier(c, t) == "t" \in DOMAIN c /\ c.t = t

CellCluster(key, all_c, t1, t2, residue) ==
    Cluster(key, all_c, t1, t2,
            fit_size_curve(t1, ARV_CONFIG.target_sf, residue.t1),
            fit_size_curve(t2, ARV_CONFIG.target_sf, residue.t2),
            fit_size_curve(all_c, ARV_CONFIG.target_sf, residue.all),
            residue.tie_up)

InCell(cs, key) == SelectSeq(cs, LAMBDA c : ClusterCell(c) = key)

RECURSIVE ClustersOf(_, _, _)
ClustersOf(cs, keys, residue) ==
    IF keys = << >> THEN << >>
    ELSE IF Len(InCell(cs, Head(keys))) < ARV_CONFIG.min_comps_per_cell
    THEN ClustersOf(cs, Tail(keys), residue)
    ELSE <<CellCluster(Head(keys), InCell(cs, Head(keys)),
                       SelectSeq(InCell(cs, Head(keys)), LAMBDA c : InTier(c, 1)),
                       SelectSeq(InCell(cs, Head(keys)), LAMBDA c : InTier(c, 2)),
                       residue)>>
         \o ClustersOf(cs, Tail(keys), residue)

compute_clusters(cs, residue) == ClustersOf(cs, CellKeys(cs, << >>), residue)

\* one call of compute_clusters(comps) (line 428)
ComputeClusters(comps_in, residue) ==
    /\ tiered_comps = << >>
    /\ comps_in # << >>
    /\ tiered_comps' = comps_in
    /\ clusters' = compute_clusters(comps_in, residue)
    /\ UNCHANGED <<csv_last, bc_comps, bc_total, skipped, skip_no_date, skip_outlier,
                   bc_pc, fit_comps, fit_result, fetch_vars,
                   comps, index_vars, listing, p75_calls, newcon_pool, pc,
                   subdiv_vars, rent_vars, btr_vars, subdiv_index_vars>>

TieredComp(lat, sqft, price, t, rw) ==
    [lat |-> lat, lng |-> -118251, sqft |-> sqft, price |-> price,
     ppsf |-> PyRound(price, sqft), t |-> t, rw |-> rw]

\* the comps the lists handed to compute_clusters are drawn from: tier 1 on
\* the line 400 $/SF + $400,000, tier 2 on the line 300 $/SF + $300,000,
\* tier 1 of one size, and a second cell
ClusterComps ==
    << TieredComp(34061, 1000, 800000, 1, 100),
       TieredComp(34062, 1500, 1000000, 1, 100),
       TieredComp(34063, 2000, 1200000, 1, 50),
       TieredComp(34061, 1000, 600000, 2, 100),
       TieredComp(34062, 1500, 750000, 2, 50),
       TieredComp(34063, 2000, 900000, 2, 100),
       TieredComp(34064, 2500, 1050000, 2, 100),
       TieredComp(34064, 1000, 900000, 1, 85),
       TieredComp(34064, 1000, 1000000, 1, 20),
       TieredComp(34071, 1500, 900000, 1, 100),
       TieredComp(34072, 1500, 960000, 2, 50),
       TieredComp(34073, 1500, 1080000, 2, 100) >>

ClusterInputs == Sublists(ClusterComps, MaxClusterComps)

\* for each of the three fits of a cell a denominator below the threshold or
\* a residue slope inside the limits, and the direction of a rounding tie
ClusterFitResidues == {r \in Residues : r.below \/ r.slope = 512}

ClusterResidues ==
    [t1 : ClusterFitResidues, t2 : ClusterFitResidues, all : ClusterFitResidues,
     tie_up : BOOLEAN]

RunComputeClusters ==
    \E cs \in ClusterInputs, r \in ClusterResidues : ComputeClusters(cs, r)

NextClusters == RunComputeClusters

SpecClusters == Init /\ [][NextClusters]_vars

ClustersComputed == tiered_comps # << >>

\* the comps of the cell a cluster stands for
CellComps(cl) ==
    SelectSeq(tiered_comps,
              LAMBDA c : <<ClusterCell(c)[1] * ARV_CONFIG.cell_size,
                           ClusterCell(c)[2] * ARV_CONFIG.cell_size>> = cl.id)

TierComps(cl, t) == SelectSeq(CellComps(cl), LAMBDA c : InTier(c, t))

\* the premium of fallback level 1
LevelOnePremium(t1, t2) ==
    IF Len(t1) >= 2 /\ Len(t2) >= 2 THEN MedianPpsf(t1) - MedianPpsf(t2) ELSE 120

\* the fallback ladder for one cluster, given what the tier-1 fit and the
\* all-comps fit returned
LadderHolds(cl, all_c, t1, t2, t1_fit, all_fit) ==
    /\ Len(all_c) >= 3
    /\ cl.n = Len(all_c)
    /\ "t1psf" \in DOMAIN cl
    /\ "t1fb" \in DOMAIN cl
    /\ IF t1_fit # NoneRecord
       THEN cl.t1fb = 0 /\ cl.t1psf = t1_fit.ppsf_at_target
       ELSE IF Len(all_c) >= 5 /\ all_fit # NoneRecord
       THEN /\ cl.t1fb = 1
            /\ cl.t1psf = all_fit.ppsf_at_target + PyRound(LevelOnePremium(t1, t2), 2)
       ELSE /\ cl.t1fb = 3
            /\ cl.t1psf = PyRound(11 * MedianPpsf(all_c), 10)
            /\ cl.t2psf = PyRound(9 * MedianPpsf(all_c), 10)

\* C25: every emitted cluster stands for a cell of at least 3 comps and
\* carries t1psf and t1fb, the level being 0 with a tier-1 fit, 1 without it
\* when the cell has at least 5 comps and the all-comps fit succeeds, and 3,
\* the raw median of all comps +10% / -10%, when both failed; and every cell
\* of at least 3 comps has its cluster.
FallbackLadder ==
    ClustersComputed =>
      /\ \A i \in 1..Len(clusters) :
            \E r1, ra \in Residues :
               LadderHolds(clusters[i], CellComps(clusters[i]),
                           TierComps(clusters[i], 1), TierComps(clusters[i], 2),
                           fit_size_curve(TierComps(clusters[i], 1),
                                          ARV_CONFIG.target_sf, r1),
                           fit_size_curve(CellComps(clusters[i]),
                                          ARV_CONFIG.target_sf, ra))
      /\ \A j \in 1..Len(tiered_comps) :
            Len(InCell(tiered_comps, ClusterCell(tiered_comps[j]))) >= 3
            => \E i \in 1..Len(clusters) :
                  clusters[i].id = <<ClusterCell(tiered_comps[j])[1] * ARV_CONFIG.cell_size,
                                     ClusterCell(tiered_comps[j])[2] * ARV_CONFIG.cell_size>>

\* a cell of five comps without tier-1 fit at level 1 with the default
\* premium, next to a second cell too small for a cluster
FallbackLadderWitness ==
    /\ ClustersComputed
    /\ Len(tiered_comps) = 6
    /\ Len(clusters) = 1
    /\ clusters[1].n = 5
    /\ clusters[1].t1n = 1
    /\ clusters[1].t1fb = 1
    /\ clusters[1].prem = 120

\* level 0, level 1 with the premium of the tier medians, level 3 in a cell
\* of five comps whose all-comps fit failed, and level 3 in a smaller cell
AllLevelsReached0 ==
    ClustersComputed /\ \E i \in 1..Len(clusters) : clusters[i].t1fb = 0

AllLevelsReached1 ==
    /\ ClustersComputed
    /\ \E i \in 1..Len(clusters) :
          /\ clusters[i].t1fb = 1 /\ clusters[i].t1n >= 2 /\ clusters[i].t2n >= 2
          /\ clusters[i].prem # 120

AllLevelsReached3 ==
    /\ ClustersComputed
    /\ \E i \in 1..Len(clusters) : clusters[i].t1fb = 3 /\ clusters[i].n >= 5

AllLevelsReached3Small ==
    /\ ClustersComputed
    /\ \E i \in 1..Len(clusters) : clusters[i].t1fb = 3 /\ clusters[i].n < 5

\* the tier-2 fit of a cluster's cell succeeds whatever rounding does
TierTwoFits(cl) ==
    \A r \in Residues :
        fit_size_curve(TierComps(cl, 2), ARV_CONFIG.target_sf, r) # NoneRecord

TierTwoIsItsFit(cl) ==
    \E r \in Residues :
        /\ cl.t2psf = fit_size_curve(TierComps(cl, 2), ARV_CONFIG.target_sf, r).ppsf_at_target
        /\ cl.t2price = fit_size_curve(TierComps(cl, 2), ARV_CONFIG.target_sf, r).price_at_target

\* C26: whenever the tier-2 fit of a cell succeeds, the cluster's t2psf and
\* t2price are the values of that fit.
TierTwoFitKept ==
    \A i \in 1..Len(clusters) :
        TierTwoFits(clusters[i]) => TierTwoIsItsFit(clusters[i])

\* it is so in the clusters whose tier-1 fit succeeded
TierTwoFitKeptAtLevelZero ==
    \A i \in 1..Len(clusters) :
        (TierTwoFits(clusters[i]) /\ clusters[i].t1fb = 0)
        => TierTwoIsItsFit(clusters[i])

\* two tier-1 comps and three tier-2 comps on the line 300 $/SF + $300,000:
\* the tier-2 fit gives 471 $/SF, the cluster reports the all-comps fit less
\* half the premium
TierTwoFitOverwritten ==
    /\ ClustersComputed
    /\ Len(clusters) = 1
    /\ clusters[1].t1n = 2 /\ clusters[1].t2n = 3 /\ clusters[1].n = 5
    /\ TierTwoFits(clusters[1])
    /\ fit_size_curve(TierComps(clusters[1], 2), ARV_CONFIG.target_sf,
                      [below |-> TRUE, slope |-> 0]).ppsf_at_target = 471
    /\ clusters[1].t1fb = 1
    /\ clusters[1].t2psf # 471

----------------------------------------------------------------------------
(* C22 *)

\* the matches the returned count counts: those collect_comps gave the tier
\* that answered (lines 1105-1107, 1115, 1122)
CountedRentals ==
    IF rent_result.method = "rental-comp"
    THEN collect_comps(listing.lat, listing.lng,
                       IF rent_result.radius_mi = Miles(7) THEN 7 ELSE 15,
                       3, 1200, SFR_TH_TYPES)
    ELSE IF rent_result.method = "rental-comp-wide"
    THEN collect_comps(listing.lat, listing.lng, 29, 3, 1200, SFR_TH_TYPES)
    ELSE IF rent_result.method = "rental-adj"
    THEN collect_comps(listing.lat, listing.lng, 15, 2, 900, {})
    ELSE << >>

\* every counted comp satisfies Test, and the count is the number of them
AllCounted(Test(_)) ==
    /\ Len(CountedRentals) = rent_result.comp_count
    /\ \A i \in 1..Len(CountedRentals) : Test(CountedRentals[i])

----------------------------------------------------------------------------
(* C27 *)

\* the candidates are in (lat, lng) order
SortedByLocation ==
    \A k \in 1..(Len(candidates) - 1) : KeyLeq(candidates[k], candidates[k + 1])

\* the seed of the cluster of candidate k: its first member in the sorted list
SeedOf(k) ==
    CHOOSE s \in 1..k : candidates[s].cluster_id = candidates[k].cluster_id /\ IsSeed(s)

\* every candidate carries one cluster id, and is within the proximity
\* threshold and the 540 days of the first member of its cluster
MembersNearSeed ==
    ClusteringDone =>
        /\ SortedByLocation
        /\ \A k \in 1..Len(candidates) :
              /\ candidates[k].cluster_id \in 1..cluster_id
              /\ \E s \in 1..k :
                    candidates[s].cluster_id = candidates[k].cluster_id /\ IsSeed(s)
              /\ Proximate(candidates[SeedOf(k)], candidates[k])
              /\ Abs(candidates[SeedOf(k)].sold_date - candidates[k].sold_date)
                    <= WindowDays
        /\ \A cid \in 1..cluster_id : ClusterOf(cid) # {}

\* a cluster id, once set, is kept until the run has written its output
ClusterIdKept ==
    subdiv_pc \in {"cluster", "step3", "step4"} =>
        /\ Len(candidates') = Len(candidates)
        /\ \A k \in 1..Len(candidates) :
              candidates[k].cluster_id # NoneInt =>
                  candidates'[k].cluster_id = candidates[k].cluster_id

----------------------------------------------------------------------------
(***************************************************************************)
(* build_subdiv_comps.py run twice on redfin_sold.csv files that hold the  *)
(* same rows in different orders.                                          *)
(***************************************************************************)

\* the orders in which a file can hold the rows of rs
RowOrders(rs) ==
    { [i \in 1..Len(rs) |-> rs[f[i]]] :
        f \in {g \in [1..Len(rs) -> 1..Len(rs)] :
                  \A a, b \in 1..Len(rs) : g[a] = g[b] => a = b} }

\* redfin_sold.csv rewritten between two runs with its rows in another order;
\* the script reads the file from top to bottom (lines 66-137)
ReorderRows ==
    /\ subdiv_pc = "written"
    /\ runs = 1
    /\ \E rs \in RowOrders(rows) : rs # rows /\ rows' = rs
    /\ UNCHANGED <<zhvi, now, candidates, cluster_id, scan_i, clustered, output,
                   prev_output, runs, subdiv_pc, listings_build_vars>>

\* three sales in one building (one coordinate pair) 500 days apart, and two
\* sales elsewhere
StackedRows ==
    { Row(34050, -118250, 2021, 750000, 0, ""),
      Row(34050, -118250, 2021, 780000, 500, ""),
      Row(34050, -118250, 2021, 810000, 1000, ""),
      Row(34052, -118251, 2021, 840000, 600, ""),
      Row(34080, -118300, 2022, 900000, 720, "") }

WriteStackedRow == \E row \in StackedRows : WriteRow(row)

\* the runs of one day, with zhvi.json missing
RunSameDay == StartRun(1440, EmptyDict)

NextReorder ==
    \/ WriteStackedRow
    \/ RunSameDay
    \/ ReorderRows
    \/ SortCandidates
    \/ ClusterStep
    \/ FilterClusters
    \/ AdjustAppreciation
    \/ WriteOutput

SpecReorder == Init /\ [][NextReorder]_vars

----------------------------------------------------------------------------
(* C28 *)

\* a written comp without the number of its cluster
Unnumbered(o) == [o EXCEPT !.cluster_id = 0]

\* the comps written, as a set
CompsOf(out) == {Unnumbered(out[i]) : i \in 1..Len(out)}

\* the partition of the written comps into clusters
PartitionOf(out) ==
    { {Unnumbered(out[j]) : j \in {k \in 1..Len(out) :
                                      out[k].cluster_id = out[i].cluster_id}} :
        i \in 1..Len(out) }

\* the second run, on the reordered file, has written its output
RerunOnReordered == subdiv_pc = "written" /\ runs = 2

\* C28 as stated: the run on a file holding the same rows in another order
\* writes the same comps in the same clusters.
ClustersIgnoreRowOrder ==
    RerunOnReordered =>
        /\ CompsOf(output) = CompsOf(prev_output)
        /\ PartitionOf(output) = PartitionOf(prev_output)

\* no two rows of the file share their coordinates
DistinctCoordinates ==
    \A i, j \in 1..Len(rows) :
        (rows[i].lat = rows[j].lat /\ rows[i].lng = rows[j].lng) => i = j

\* the same for files in which no two rows share their coordinates
ClustersIgnoreRowOrderIfDistinct ==
    DistinctCoordinates => ClustersIgnoreRowOrder

\* the three sales of one building read in the order of days 0, 500, 1000 gave
\* a cluster of two (the sale of day 1000 is dropped); read in the order 500,
\* 0, 1000 they give a cluster of three
ReorderedStackGrows ==
    /\ RerunOnReordered
    /\ Len(rows) = 3
    /\ \A i \in 1..3 : rows[i].lat = 34050 /\ rows[i].lng = -118250
    /\ rows[1].sold = 500 /\ rows[2].sold = 0 /\ rows[3].sold = 1000
    /\ Len(prev_output) = 2
    /\ Len(output) = 3
    /\ \A i \in 1..3 : output[i].cluster_size = 3

\* two runs on reordered files of rows of distinct coordinates
ReorderedDistinctRun ==
    /\ RerunOnReordered
    /\ DistinctCoordinates
    /\ Len(rows) = 3
    /\ rows # << >>
    /\ Len(output) = 2

----------------------------------------------------------------------------
(* C29 *)

\* what try_tiers makes of the same-zone comps within the i-th radius
SameZonePool(i) ==
    try_tiers(RawSame(DictGet(newcon_zone_grid, listing.zone, EmptyDict),
                      listing.lat, listing.lng, NEWCON_RADII[i]))

\* the same-zone pool of the i-th radius reaches the threshold of Phase 1
ReachesThreshold(i) ==
    SameZonePool(i).tier # "None" /\ Len(SameZonePool(i).ppsf_list) >= MIN_COMPS

\* the i-th radius is the smallest whose same-zone pool reaches the threshold
FirstReaching(i) ==
    ReachesThreshold(i) /\ \A j \in 1..(i - 1) : ~ReachesThreshold(j)

\* the P75 of the pool is below 75% of the general estimate of the listing
BelowSanityBound(t) ==
    ExitPsfOrZero(listing) > 0 /\ 4 * p75(t.ppsf_list) < 3 * ExitPsfOrZero(listing)

\* C29: when the same-zone pool of the smallest radius that reaches the comp
\* threshold has a P75 below 75% of the general estimate, find_newcon_ppsf
\* returns no value, with the count and tier of that pool, zone_matched True
\* and 'sanity-low'; the pool returned is that pool and its P75 the only one
\* taken: no wider radius and no adjacent zone is tried.
SanityLowEndsSearch ==
    NewconStamped =>
        \A i \in 1..Len(NEWCON_RADII) :
            (FirstReaching(i) /\ BelowSanityBound(SameZonePool(i))) =>
                /\ listing.newconPpsf = NoneInt
                /\ listing.newconCount = Len(SameZonePool(i).ppsf_list)
                /\ listing.newconTier = SameZonePool(i).tier
                /\ listing.newconZoneMatch = "True"
                /\ listing.newconFlag = "sanity-low"
                /\ newcon_pool = SameZonePool(i).pool
                /\ p75_calls = <<P75Call(SameZonePool(i).ppsf_list)>>

\* five $350/SF comps of the listing's zone within 0.5 mi against a general
\* estimate of $500/SF, and an $800/SF comp of the zone within 1 mi: the
\* search ends at 0.5 mi with no value and a count of 5
SanityLowEndsSearchWitness ==
    /\ NewconStamped
    /\ listing.zone = "R2"
    /\ listing.exitPsf = 500
    /\ FirstReaching(1)
    /\ p75(SameZonePool(1).ppsf_list) = 350
    /\ \E c \in DOMAIN comps : c.zone = "R2" /\ CompPpsf(c) = 800 /\ c.yb = 2023
    /\ listing.newconPpsf = NoneInt
    /\ listing.newconCount = 5
    /\ listing.newconFlag = "sanity-low"

----------------------------------------------------------------------------
(***************************************************************************)
(* fetch_sold_comps.py: the adaptive tile fetch.  fetch_listings.py has    *)
(* the same fetch_tile and process_tile with MAX_RETRIES = 2 and           *)
(* MAX_SUBDIVIDE_DEPTH = 6.  Coordinates are millionths of a degree.  An   *)
(* answer of the server is followed through the number of its data rows    *)
(* and the homes of Homes among them; a row kept in all_data_rows carries  *)
(* the tile whose answer delivered it.  The counters that are only printed *)
(* (tiles_fetched, tiles_empty, ...) and the waits are left out.           *)
(***************************************************************************)
MAX_RETRIES == 5
MAX_SUBDIVIDE_DEPTH == 4
REDFIN_NUM_HOMES == 350

\* the tile main() keeps with --test: the tile of build_grid that holds the
\* centre of the market
TestTile ==
    [lat_min |-> 34180000, lat_max |-> 34300000,
     lng_min |-> -118350000, lng_max |-> -118200000, depth |-> 0]

\* tile_utils.subdivide_tile; the midpoints are whole millionths
subdivide_tile(t) ==
    LET mid_lat == PyRound(t.lat_min + t.lat_max, 2)
        mid_lng == PyRound(t.lng_min + t.lng_max, 2)
        d       == t.depth + 1
    IN  << [lat_min |-> t.lat_min, lat_max |-> mid_lat,
            lng_min |-> t.lng_min, lng_max |-> mid_lng, depth |-> d],
           [lat_min |-> t.lat_min, lat_max |-> mid_lat,
            lng_min |-> mid_lng, lng_max |-> t.lng_max, depth |-> d],
           [lat_min |-> mid_lat, lat_max |-> t.lat_max,
            lng_min |-> t.lng_min, lng_max |-> mid_lng, depth |-> d],
           [lat_min |-> mid_lat, lat_max |-> t.lat_max,
            lng_min |-> mid_lng, lng_max |-> t.lng_max, depth |-> d] >>

\* the empty list fetch_tile returns
NoRows == [data_count |-> 0, homes |-> {}]

\* what one request brings back: "csv" is a 200 with a header and data_count
\* data rows, "html" a 200 with an empty, HTML or JSON body, "blocked" a 429
\* or 403, "status" any other status, "timeout" requests.exceptions.Timeout,
\* "error" any other exception
Answer(kind, data_count, homes) ==
    [kind |-> kind, data_count |-> data_count, homes |-> homes]

\* the retry allowed once more than MAX_RETRIES times
fetch_tile_retrying_once_more(answer, retries) ==
    IF answer.kind = "csv"
    THEN [retry |-> FALSE,
          rows  |-> IF answer.data_count + 1 > 1
                    THEN [data_count |-> answer.data_count, homes |-> answer.homes]
                    ELSE NoRows]
    ELSE IF answer.kind \in {"blocked", "timeout"} /\ retries <= MAX_RETRIES
    THEN [retry |-> TRUE, rows |-> NoRows]
    ELSE [retry |-> FALSE, rows |-> NoRows]

\* one pass through fetch_tile (lines 44-86) for the answer received: the
\* rows returned, or the recursive call with retries + 1
fetch_tile(answer, retries) ==
    IF answer.kind = "csv"
    THEN [retry |-> FALSE,
          rows  |-> IF answer.data_count + 1 > 1
                    THEN [data_count |-> answer.data_count, homes |-> answer.homes]
                    ELSE NoRows]
    ELSE IF answer.kind \in {"blocked", "timeout"} /\ retries < MAX_RETRIES
    THEN [retry |-> TRUE, rows |-> NoRows]
    ELSE [retry |-> FALSE, rows |-> NoRows]

\* seen_keys
SeenKeys(data_rows) == {r.home : r \in data_rows}

\* ingest_rows (lines 89-115): the rows got whose key is new are appended
ingest_rows(data_rows, got, tile) ==
    data_rows \cup {[home |-> h, tile |-> tile] :
                       h \in got.homes \ SeenKeys(data_rows)}

\* the tile process_tile is working on
CurrentTile == Head(call_stack[Len(call_stack)])

\* process_tile returns: its caller's loop goes on to the next tile, and a
\* loop that has no tile left returns in turn (lines 144-146, main)
RECURSIVE ReturnFrom(_)
ReturnFrom(stack) ==
    IF Tail(stack[Len(stack)]) # << >>
    THEN [stack EXCEPT ![Len(stack)] = Tail(stack[Len(stack)])]
    ELSE IF Len(stack) = 1 THEN << >>
    ELSE ReturnFrom(SubSeq(stack, 1, Len(stack) - 1))

\* hit_cap and the depth test (lines 139, 141)
SplitTile(got, tile) ==
    /\ got.data_count >= REDFIN_NUM_HOMES - 5
    /\ tile.depth < MAX_SUBDIVIDE_DEPTH

\* process_tile after fetch_tile returned the rows got (lines 134-159)
process_tile(got, tile, data_rows, stack) ==
    IF got = NoRows
    THEN [stack |-> ReturnFrom(stack), data_rows |-> data_rows]
    ELSE IF SplitTile(got, tile)
    THEN [stack |-> Append(stack, subdivide_tile(tile)), data_rows |-> data_rows]
    ELSE [stack |-> ReturnFrom(stack),
          data_rows |-> ingest_rows(data_rows, got, tile)]

not_fetch_vars ==
    <<comps, index_vars, listing, p75_calls, newcon_pool, pc, subdiv_vars,
      rent_vars, btr_vars, subdiv_index_vars, build_comps_vars>>

\* main(): the loop over the tiles starts (lines 189-190)
Main(tiles) ==
    /\ fetch_pc = "idle"
    /\ call_stack' = <<tiles>>
    /\ fetch_retries' = 0
    /\ fetch_requests' = 0
    /\ fetch_rows' = NoRows
    /\ fetch_pc' = "fetch"
    /\ UNCHANGED <<all_data_rows, not_fetch_vars>>

\* session.get and what fetch_tile does with the answer (lines 53-86)
Request(answer) ==
    /\ fetch_pc = "fetch"
    /\ fetch_requests' = fetch_requests + 1
    /\ \E r \in {fetch_tile(answer, fetch_retries)} :
          IF r.retry
          THEN /\ fetch_retries' = fetch_retries + 1
               /\ UNCHANGED <<fetch_rows, fetch_pc>>
          ELSE /\ fetch_rows' = r.rows
               /\ fetch_pc' = "fetched"
               /\ UNCHANGED fetch_retries
    /\ UNCHANGED <<call_stack, all_data_rows, not_fetch_vars>>

\* process_tile from the return of fetch_tile to its own return or to the
\* call of process_tile for the first sub-tile (lines 134-159)
ProcessRows ==
    /\ fetch_pc = "fetched"
    /\ \E p \in {process_tile(fetch_rows, CurrentTile, all_data_rows, call_stack)} :
          /\ call_stack' = p.stack
          /\ all_data_rows' = p.data_rows
          /\ fetch_pc' = IF p.stack = << >> THEN "done" ELSE "fetch"
    /\ fetch_retries' = 0
    /\ fetch_requests' = 0
    /\ fetch_rows' = NoRows
    /\ UNCHANGED not_fetch_vars

----------------------------------------------------------------------------
(* Inputs of the tile fetch *)

\* two homes of the test tile, in opposite corners
Homes ==
    { [lat |-> 34190000, lng |-> -118340000],
      [lat |-> 34295000, lng |-> -118205000] }

HomesIn(tile) ==
    {h \in Homes : /\ tile.lat_min <= h.lat /\ h.lat <= tile.lat_max
                   /\ tile.lng_min <= h.lng /\ h.lng <= tile.lng_max}

\* the answers to a request for the tile: any status, and for a csv any of
\* the homes of the tile among 0, 1, 344 or 345 data rows
Answers(tile) ==
    {Answer(k, 0, {}) : k \in {"html", "blocked", "status", "timeout", "error"}}
    \cup {Answer("csv", n, S) : n \in {1, REDFIN_NUM_HOMES - 6, REDFIN_NUM_HOMES - 5},
                                 S \in {T \in SUBSET HomesIn(tile) : T # {}}}
    \cup {Answer("csv", n, {}) : n \in {0, REDFIN_NUM_HOMES - 6, REDFIN_NUM_HOMES - 5}}

RunMain == Main(<<TestTile>>)

ServerAnswers ==
    /\ fetch_pc = "fetch"
    /\ \E answer \in Answers(CurrentTile) : Request(answer)

NextFetch == RunMain \/ ServerAnswers \/ ProcessRows

\* the script is one sequential process: every request returns within its
\* 30 s timeout and every wait is finite, so a step that is due is taken
SpecFetch == Init /\ [][NextFetch]_vars /\ WF_vars(NextFetch)

----------------------------------------------------------------------------
(* C30 *)

\* tile a lies inside tile b and is deeper
Descendant(a, b) ==
    /\ a.depth > b.depth
    /\ b.lat_min <= a.lat_min /\ a.lat_max <= b.lat_max
    /\ b.lng_min <= a.lng_min /\ a.lng_max <= b.lng_max

\* at most 1 + MAX_RETRIES requests per tile, at most MAX_SUBDIVIDE_DEPTH
\* calls of process_tile inside the first, a tile of depth k - 1 in the k-th
\* call, and no row kept from a tile while one of its descendants is fetched
FetchBounded ==
    /\ fetch_requests <= 1 + MAX_RETRIES
    /\ Len(call_stack) - 1 <= MAX_SUBDIVIDE_DEPTH
    /\ \A k \in 1..Len(call_stack) :
          /\ call_stack[k] # << >>
          /\ \A i \in 1..Len(call_stack[k]) : call_stack[k][i].depth = k - 1
    /\ \A r \in all_data_rows :
          \A k \in 1..Len(call_stack) : \A i \in 1..Len(call_stack[k]) :
              ~Descendant(call_stack[k][i], r.tile)

\* a step that splits the tile keeps no row of it, a step that keeps rows
\* keeps rows of the current tile and does not split it, and a tile abandoned
\* after a 429/403 or a timeout has had 1 + MAX_RETRIES requests
FetchStep ==
    /\ (call_stack # << >> /\ Len(call_stack') > Len(call_stack)) =>
          /\ fetch_pc = "fetched"
          /\ CurrentTile.depth < MAX_SUBDIVIDE_DEPTH
          /\ all_data_rows' = all_data_rows
          /\ call_stack' = Append(call_stack, subdivide_tile(CurrentTile))
          /\ fetch_rows' = NoRows
    /\ all_data_rows' # all_data_rows =>
          /\ all_data_rows \subseteq all_data_rows'
          /\ \A r \in all_data_rows' \ all_data_rows : r.tile = CurrentTile
          /\ Len(call_stack') <= Len(call_stack)
    /\ (fetch_pc = "fetch" /\ fetch_retries' = fetch_retries + 1) =>
          fetch_requests' = fetch_retries' /\ fetch_retries' <= MAX_RETRIES

TileAbandoned ==
    /\ fetch_pc = "fetched"
    /\ fetch_requests = 1 + MAX_RETRIES
    /\ fetch_retries = MAX_RETRIES
    /\ fetch_rows = NoRows

====
